---- MODULE Spec2Model ----
(***************************************************************************)
(* A model of the DigitalBreef scrapers: the location resolver of the      *)
(* ranch form parser, the three scrape operations with their readiness     *)
(* pollers, and the three table extractors.                                *)
(*                                                                         *)
(* Text is modelled as a sequence of one-character strings, so that        *)
(* strip(), upper(), the substring test and split('|', 1) are computed.    *)
(***************************************************************************)
EXTENDS Integers, Sequences, FiniteSets, TLC

VARIABLES
    pageOpen,       \* the page still answers evaluate()
    selectPresent,  \* document.querySelector('#search-member-location') is not null
    dropdown,       \* select.options of the page: sequence of [value, text]
    user_input,     \* argument of the last map_location_input call
    options,        \* the list get_dropdown_options returned to that call
    mapped,         \* the value that call returned
    rpc,            \* resolver position: "page" (nothing resolved yet) or "mapped"
    kind,           \* the search type of the scraper object: "ranch", "animal", "epd"
    rows,           \* the rows the extractor's selector finds, in document order
    results,        \* the list the extractor returned
    origin,         \* history: origin[n] is the index in rows that gave results[n]
    xpc,            \* extractor position: "page", "extracted" or "failed"
    pc,             \* position of the scrape call: the stage it is about to run
    stages,         \* history: the handlers the scrape call has invoked, in order
    controls,       \* the form controls the search page has
    hasFunc,        \* the page's script defines the doSearch_* function
    hasButton,      \* the page has a search button
    marker,         \* the page shows a .no-results / .no-data / .error element
    loading,        \* the page shows a .loading / .processing element
    container,      \* the page has the #dvSearchResults container
    missing,        \* missing_fields of validate_required_fields
    probed,         \* the submitter has asked the page whether the function exists
    trigger,        \* the mechanism the submitter used: "none", "function", "button"
    ppc,            \* position inside the readiness poller
    elapsed_time,   \* elapsed_time of EPDSearchScraper.wait_for_results
    ticks,          \* history: loop iterations the poller has started
    has_results,    \* the last row query of the poller
    no_results,     \* the last marker query of the poller
    seenMarker,     \* history: the page's marker at the last row query
    readiness,      \* how the poller ended: Pending while it has not
    data,           \* argument of clean_table_data: rows of field |-> Python value
    cleaned,        \* what clean_table_data returned for data
    recleaned,      \* what clean_table_data returned for its own output
    cpc,            \* cleaning position: "raw", "cleaned" or "recleaned"
    given,          \* history: the records of the batch as the caller passed them
    batch,          \* the records of the batch as they are now (the caller's objects)
    enriched_results, \* the output list of the batch enrichment so far
    outcomes,       \* history: outcomes[i] is how record i went: skipped, enriched, failed
    fetched,        \* history: fetched[i] is the detail-page fields merged into record i
    epc,            \* enrichment position: "start", "loop" or "returned"
    operation,      \* the operation that opens the browser session
    qpc,            \* session position of that operation
    playwright,     \* the driver process: "none", "running", "stopped", "stop_failed"
    browser,        \* the browser process: "none", "open", "closed", "close_failed"
    has_browser,    \* the name the release code reads holds the browser
    has_playwright, \* the name the release code reads holds the driver
    left,           \* history: how the body was left: "inside", "return", "early", "exception"
    sessions_started, \* history: the init_browser calls of the batch enrichment so far
    search_params,  \* the caller's search parameters: parameter name |-> text
    todo,           \* the parameters the form filler has still to go through
    filled,         \* the controls written so far: control id |-> value written
    fill_result,    \* what the form filler returned: "pending", "True" or "False"
    fill_error,     \* history: a driver call of the form filler raised
    text,           \* the argument given to the two normalisers
    normalized,     \* <<>> before the call, then <<normalize_string(text), normalize_input(text)>>
    callpc,         \* callpc[c]: [at |-> position of scrape call c, page |-> whose browser its page is on]
    self_browser,   \* scraper.browser: 0 for None, else the call whose browser it is
    self_playwright, \* scraper.playwright: 0 for None, else the call whose driver it is
    drivers,        \* drivers[c]: the driver call c started: "none", "running", "stopped"
    browsers,       \* browsers[c]: the browser call c launched: "none", "open", "closed"
    closed_by,      \* history: closed_by[c] is the sequence of calls that closed browser c
    stopped_by,     \* history: stopped_by[c] is the sequence of calls that stopped driver c
    closed_in_use,  \* history: a call closed a browser while another call had its page on it
    overlapped      \* history: two calls were in progress at the same time

rvars == <<pageOpen, selectPresent, dropdown, user_input, options, mapped, rpc>>

xvars == <<kind, rows, results, origin, xpc>>

pagevars == <<controls, hasFunc, hasButton, marker, loading, container>>

pollvars == <<ppc, elapsed_time, ticks, has_results, no_results, seenMarker, readiness>>

svars == <<pc, stages, missing, probed, trigger, pagevars, pollvars>>

cvars == <<data, cleaned, recleaned, cpc>>

evars == <<given, batch, enriched_results, outcomes, fetched, epc, sessions_started>>

qvars == <<operation, qpc, playwright, browser, has_browser, has_playwright, left>>

fvars == <<search_params, todo, filled, fill_result, fill_error>>

nvars == <<text, normalized>>

kvars == <<callpc, self_browser, self_playwright, drivers, browsers, closed_by,
           stopped_by, closed_in_use, overlapped>>

tvars == <<fvars, nvars, kvars>>

vars == <<rvars, xvars, svars, cvars, evars, qvars, tvars>>

\* no form is being filled
FIdle ==
    /\ search_params = <<>>
    /\ todo = <<>>
    /\ filled = <<>>
    /\ fill_result = "pending"
    /\ fill_error = FALSE

\* no text has been normalised
NIdle ==
    /\ text = <<>>
    /\ normalized = <<>>

\* no call has been made on the scraper object
KIdle ==
    /\ callpc = <<>>
    /\ self_browser = 0
    /\ self_playwright = 0
    /\ drivers = <<>>
    /\ browsers = <<>>
    /\ closed_by = <<>>
    /\ stopped_by = <<>>
    /\ closed_in_use = FALSE
    /\ overlapped = FALSE

TIdle == FIdle /\ NIdle /\ KIdle

\* no operation has opened a session
QIdle ==
    /\ operation = "none"
    /\ qpc = "start"
    /\ playwright = "none"
    /\ browser = "none"
    /\ has_browser = FALSE
    /\ has_playwright = FALSE
    /\ left = "inside"

\* clean_table_data has not been called
CIdle ==
    /\ data = <<>>
    /\ cleaned = <<>>
    /\ recleaned = <<>>
    /\ cpc = "raw"

\* no batch enrichment has started
EIdle ==
    /\ given = <<>>
    /\ batch = <<>>
    /\ enriched_results = <<>>
    /\ outcomes = <<>>
    /\ fetched = <<>>
    /\ epc = "start"
    /\ sessions_started = 0

\* no scrape call has started
SIdle ==
    /\ pc = "start"
    /\ stages = <<>>
    /\ controls = {}
    /\ hasFunc = FALSE
    /\ hasButton = FALSE
    /\ marker = FALSE
    /\ loading = FALSE
    /\ container = FALSE
    /\ missing = {}
    /\ probed = FALSE
    /\ trigger = "none"
    /\ ppc = "idle"
    /\ elapsed_time = 0
    /\ ticks = 0
    /\ has_results = FALSE
    /\ no_results = [noResults |-> FALSE, loading |-> FALSE]
    /\ seenMarker = FALSE
    /\ readiness = "Pending"

-----------------------------------------------------------------------------
(* Bounds of the model *)

MaxLen == 2         \* longest enumerated input of the resolver
MaxChars == 3       \* most characters (values and labels) in the enumerated dropdown
MaxOptions == 2     \* most options in the enumerated dropdown
MaxRows == 2        \* most rows on a result page
MaxTraitCells == 1  \* most EPD trait cells in an enumerated result row
MaxCleanRows == 2   \* most rows of a table given to clean_table_data
MaxBatch == 3       \* most records in an enrichment batch
MaxText == 3        \* longest enumerated argument of the normalisers
MaxCalls == 2       \* scrape calls made on one scraper object

-----------------------------------------------------------------------------
(* Text *)

Alphabet == {"t", "T", " ", "|"}

\* the return value None of map_location_input
None == <<"<None>">>

StringsUpTo(n) == UNION {[1..k -> Alphabet] : k \in 0..n}

IsSpace(c) == c \in {" ", "\n", "\t"}

UpperChar(c) == IF c = "t" THEN "T"
                ELSE IF c = "u" THEN "U"
                ELSE IF c = "n" THEN "N"
                ELSE IF c = "i" THEN "I"
                ELSE IF c = "e" THEN "E"
                ELSE IF c = "d" THEN "D"
                ELSE IF c = "s" THEN "S"
                ELSE IF c = "a" THEN "A"
                ELSE IF c = "x" THEN "X"
                ELSE IF c = "h" THEN "H"
                ELSE IF c = "o" THEN "O"
                ELSE c

\* str.upper()
Upper(s) == [i \in 1..Len(s) |-> UpperChar(s[i])]

RECURSIVE LStrip(_)
LStrip(s) == IF s # <<>> /\ IsSpace(Head(s)) THEN LStrip(Tail(s)) ELSE s

RECURSIVE RStrip(_)
RStrip(s) == IF s # <<>> /\ IsSpace(s[Len(s)])
             THEN RStrip(SubSeq(s, 1, Len(s) - 1)) ELSE s

\* str.strip() and JavaScript's String.prototype.trim()
Strip(s) == RStrip(LStrip(s))

\* Python's `sub in s`
Contains(sub, s) ==
    \E i \in 0..(Len(s) - Len(sub)) : SubSeq(s, i + 1, i + Len(sub)) = sub

HasPipe(s) == \E i \in 1..Len(s) : s[i] = "|"

FirstPipe(s) == CHOOSE i \in 1..Len(s) : s[i] = "|" /\ \A j \in 1..(i - 1) : s[j] # "|"

\* the second part of s.split('|', 1), for s containing '|'
AfterPipe(s) == SubSeq(s, FirstPipe(s) + 1, Len(s))

Min(S) == CHOOSE x \in S : \A y \in S : x <= y

-----------------------------------------------------------------------------
(* The location resolver: FormParser in ranch_scraper/form_parser.py *)

\* the scenario dropdown of the specification and of test_map_location_input
US_TX == <<"U", "S", "|", "T", "X">>
UnitedStatesTexas ==
    <<"U", "n", "i", "t", "e", "d", " ", "S", "t", "a", "t", "e", "s", " ", "-",
      " ", "T", "e", "x", "a", "s">>
Texas == <<"T", "e", "x", "a", "s">>
Ohio == <<"O", "h", "i", "o">>
CA_TX == <<"C", "A", "|", "T", "X">>

ScenarioDropdown == <<[value |-> US_TX, text |-> UnitedStatesTexas]>>

\* option.value is the raw attribute; option.text is already stripped by the DOM
OptionValues(room) == StringsUpTo(room)
OptionTexts(room) == {s \in StringsUpTo(room) : Strip(s) = s}

RECURSIVE TotalChars(_)
TotalChars(opts) ==
    IF opts = <<>> THEN 0
    ELSE Len(Head(opts).value) + Len(Head(opts).text) + TotalChars(Tail(opts))

Inputs == StringsUpTo(MaxLen) \cup {Texas, US_TX, Ohio, CA_TX}

\* get_dropdown_options answering from the select it saw before the page closed
GetDropdownOptionsStale(open, present, opts) ==
    IF ~present THEN <<>>
    ELSE [i \in 1..Len(opts) |->
            [value |-> opts[i].value, text |-> Strip(opts[i].text)]]

\* page.evaluate of get_dropdown_options: [] without the select, else every
\* option as {value: option.value, text: option.text.trim()}; [] when evaluate raises
GetDropdownOptions(open, present, opts) ==
    IF ~open THEN <<>>
    ELSE IF ~present THEN <<>>
    ELSE [i \in 1..Len(opts) |->
            [value |-> opts[i].value, text |-> Strip(opts[i].text)]]

\* map_location_input falling back to the first option when nothing matches
MapLocationInputDefault(opts, input) ==
    IF opts = <<>> THEN None
    ELSE
      LET u == Upper(Strip(input))
          byValue == {i \in 1..Len(opts) : Upper(Strip(opts[i].value)) = u}
          byText == {i \in 1..Len(opts) :
                        \/ Contains(u, Upper(opts[i].text))
                        \/ Contains(Upper(opts[i].text), u)}
      IN  IF byValue # {} THEN opts[Min(byValue)].value
          ELSE IF byText # {} THEN opts[Min(byText)].value
          ELSE opts[1].value

\* map_location_input after the options were read
MapLocationInput(opts, input) ==
    IF opts = <<>> THEN None
    ELSE
      LET u == Upper(Strip(input))
          byValue == {i \in 1..Len(opts) : Upper(Strip(opts[i].value)) = u}
          byText == {i \in 1..Len(opts) :
                        \/ Contains(u, Upper(opts[i].text))
                        \/ Contains(Upper(opts[i].text), u)}
          state == Strip(AfterPipe(u))
          byState == IF HasPipe(u)
                     THEN {i \in 1..Len(opts) : Contains(state, opts[i].value)}
                     ELSE {}
      IN  IF byValue # {} THEN opts[Min(byValue)].value
          ELSE IF byText # {} THEN opts[Min(byText)].value
          ELSE IF byState # {} THEN opts[Min(byState)].value
          ELSE None

rOther == <<xvars, svars, cvars, evars, qvars, tvars>>

RInit ==
    /\ pageOpen = TRUE
    /\ selectPresent \in BOOLEAN
    /\ dropdown \in IF selectPresent THEN {<<>>, ScenarioDropdown} ELSE {<<>>}
    /\ user_input = <<>>
    /\ options = <<>>
    /\ mapped = None
    /\ rpc = "page"
    /\ kind = "ranch"
    /\ rows = <<>>
    /\ results = <<>>
    /\ origin = <<>>
    /\ xpc = "page"
    /\ SIdle
    /\ CIdle
    /\ EIdle
    /\ QIdle
    /\ TIdle

\* the site renders one more option into the select
PageAddOption ==
    /\ rpc = "page"
    /\ pageOpen
    /\ selectPresent
    /\ Len(dropdown) < MaxOptions
    /\ dropdown # ScenarioDropdown
    /\ \E v \in OptionValues(MaxChars - TotalChars(dropdown)) :
          \E t \in OptionTexts(MaxChars - TotalChars(dropdown) - Len(v)) :
              dropdown' = Append(dropdown, [value |-> v, text |-> t])
    /\ UNCHANGED <<pageOpen, selectPresent, user_input, options, mapped, rpc>>
    /\ UNCHANGED rOther

\* the page is closed under the parser: every later evaluate raises
PageClose ==
    /\ rpc = "page"
    /\ pageOpen
    /\ pageOpen' = FALSE
    /\ UNCHANGED <<selectPresent, dropdown, user_input, options, mapped, rpc>>
    /\ UNCHANGED rOther

\* FormParser.map_location_input(page, input)
MapLocation ==
    /\ rpc = "page"
    /\ \E input \in Inputs :
          LET opts == GetDropdownOptions(pageOpen, selectPresent, dropdown)
          IN  /\ user_input' = input
              /\ options' = opts
              /\ mapped' = MapLocationInput(opts, input)
    /\ rpc' = "mapped"
    /\ UNCHANGED <<pageOpen, selectPresent, dropdown>>
    /\ UNCHANGED rOther

RNext == PageAddOption \/ PageClose \/ MapLocation

SpecResolve == RInit /\ [][RNext]_vars

-----------------------------------------------------------------------------
(* Claims about the resolver, checked under SpecResolve *)

LabelsDistinct(opts) ==
    \A i, j \in 1..Len(opts) : i # j => Upper(opts[i].text) # Upper(opts[j].text)

LabelIsNoValue(opts, l) ==
    \A j \in 1..Len(opts) : Upper(Strip(opts[j].value)) # Upper(Strip(l))

\* C1: with pairwise distinct labels (ignoring case), resolving a label that
\* equals no option's value returns the value the label is paired with.
C1_LabelResolvesToPairedValue ==
    rpc = "mapped" =>
        \A i \in 1..Len(options) :
            ( /\ LabelsDistinct(options)
              /\ LabelIsNoValue(options, options[i].text)
              /\ user_input = options[i].text )
            => mapped = options[i].value

\* C2: resolving a value that appears in the list returns exactly that value.
C2_ValueResolvesToItself ==
    rpc = "mapped" =>
        ( (\E i \in 1..Len(options) : options[i].value = user_input)
          => mapped = user_input )

ScenarioHolds ==
    (rpc = "mapped" /\ options = ScenarioDropdown) =>
        /\ user_input = Texas => mapped = US_TX
        /\ user_input = US_TX => mapped = US_TX
        /\ user_input = Ohio => mapped = None

\* the statement of C3 as written: an input that, ignoring case, equals no
\* value and no label and is in no containment with a label, gives None
C3_Original ==
    /\ ScenarioHolds
    /\ rpc = "mapped" =>
        ( ( \A i \in 1..Len(options) :
              /\ Upper(options[i].value) # Upper(user_input)
              /\ Upper(options[i].text) # Upper(user_input)
              /\ ~Contains(Upper(user_input), Upper(options[i].text))
              /\ ~Contains(Upper(options[i].text), Upper(user_input)) )
          => mapped = None )

\* C3: an input whose trimmed upper-case form equals no trimmed upper-case
\* value, is in no containment with an upper-case label, and has no '|' whose
\* trimmed remainder occurs in a raw value, gives None; the scenario of the
\* specification gives 'US|TX', 'US|TX' and None.
C3_NoMatchWithoutRule ==
    /\ ScenarioHolds
    /\ rpc = "mapped" =>
        LET u == Upper(Strip(user_input))
        IN  ( \A i \in 1..Len(options) :
                /\ Upper(Strip(options[i].value)) # u
                /\ ~Contains(u, Upper(options[i].text))
                /\ ~Contains(Upper(options[i].text), u)
                /\ HasPipe(u) => ~Contains(Strip(AfterPipe(u)), options[i].value) )
            => mapped = None

C3_Witness ==
    /\ rpc = "mapped"
    /\ options = ScenarioDropdown
    /\ user_input = Ohio
    /\ mapped = None

\* C4: with no select, no options in it, or a failed read of the options,
\* every input resolves to None.
C4_EmptyListGivesNone ==
    (rpc = "mapped" /\ (~pageOpen \/ ~selectPresent \/ dropdown = <<>>))
        => mapped = None

C4_Witness ==
    /\ rpc = "mapped"
    /\ ~pageOpen
    /\ dropdown = ScenarioDropdown
    /\ user_input = US_TX
    /\ mapped = None

-----------------------------------------------------------------------------
(* The table extractors and clean_table_data *)

Kinds == {"ranch", "animal", "epd"}

\* a record with no field
EmptyRecord == [k \in {} |-> <<>>]

\* ' '.join(value.split()) on a stripped text: every run of whitespace is one space
RECURSIVE Squeeze(_)
Squeeze(s) ==
    IF s = <<>> THEN <<>>
    ELSE IF IsSpace(Head(s))
         THEN IF Tail(s) # <<>> /\ IsSpace(Head(Tail(s)))
              THEN Squeeze(Tail(s))
              ELSE <<" ">> \o Squeeze(Tail(s))
         ELSE <<Head(s)>> \o Squeeze(Tail(s))

CleanValue(value) == Squeeze(Strip(value))

\* Python values of a row: a str, None, or another value with its str() form
PyStr(s) == [tag |-> "str", text |-> s]
PyNone == [tag |-> "None", text |-> <<>>]
PyOther(repr) == [tag |-> "other", text |-> repr]

\* the value clean_table_data stores for v: the isinstance(value, str) branch,
\* and str(value) if value is not None else ""
CleanAny(v) ==
    IF v.tag = "str" THEN CleanValue(v.text)
    ELSE IF v.tag = "None" THEN <<>>
    ELSE v.text

\* clean_table_data: every value of every row cleaned, rows and keys kept
CleanTableData(table) ==
    [n \in 1..Len(table) |-> [k \in DOMAIN table[n] |-> CleanAny(table[n][k])]]

\* a table whose values are all str, as the extractors' evaluate returns it
AsStrings(table) ==
    [n \in 1..Len(table) |-> [k \in DOMAIN table[n] |-> PyStr(table[n][k])]]

\* reference targets a link of the result page can have
HrefEmpty == <<>>
HrefHash == <<"#">>
HrefScript == <<"j", "a", "v", "a", "s", "c", "r", "i", "p", "t", ":", "v", "(", ")">>
HrefDetail ==
    <<"d", "e", "t", "a", "i", "l", ".", "p", "h", "p", "?", "i", "d", "=", "5", "5">>
Hrefs == {HrefEmpty, HrefHash, HrefScript, HrefDetail}

JavascriptScheme == <<"j", "a", "v", "a", "s", "c", "r", "i", "p", "t", ":">>

LinkText == <<"*", "x", "1", "2", "3", "4", "5">>

\* the anchor of the identifier cell: absent, or present with one of the targets
Links == {[has |-> FALSE, href |-> HrefEmpty]} \cup {[has |-> TRUE, href |-> h] : h \in Hrefs}

\* the text of the first td of the k-th tr of a nested trait table, as rendered
SubRowText(k) ==
    IF k = 1 THEN <<"+", "1", ".", "2">>
    ELSE IF k = 2 THEN <<"\n", "+", "0", ".", "1">>
    ELSE IF k = 3 THEN <<" ", "8", "7", " ">>
    ELSE IF k = 4 THEN <<"1", "2">>
    ELSE <<"x">>

\* a nested trait table with n rows (none for n = 0)
NestedTable(n) == [k \in 1..n |-> SubRowText(k)]

\* rows.length >= 4 of the nested trait table
SubRowsNeeded == 4

NestedTables ==
    {NestedTable(n) : n \in {SubRowsNeeded - 1, SubRowsNeeded, SubRowsNeeded + 1}}

TraitCells == UNION {[1..c -> NestedTables] : c \in 0..MaxTraitCells}

\* sample textContent of the cells other than the first
CellText(j) ==
    IF j = 1 THEN LinkText
    ELSE IF j = 2 THEN <<"P", " ", " ", "7">>
    ELSE IF j = 3 THEN <<" ", "N", "a", "m", "e">>
    ELSE <<"c", "\t">>

TypeHeader == <<"T", "y", "p", "e">>
ProfilesMatch == <<"P", "r", "o", "f", "i", "l", "e", "s", " ", "M", "a", "t", "c", "h">>
MatchHeader == <<"2", " ">> \o ProfilesMatch
TypeAA == <<" ", "A", "A">>

\* the least cell counts the ranch and the animal extractor accept
MinCellsRanch == 3
MinCellsAnimal == 4

\* the WW block of the specification's scenario, third after CED and BW
ScenarioRow ==
    [ncells |-> 4, first |-> LinkText, link |-> [has |-> TRUE, href |-> HrefDetail],
     traits |-> <<NestedTable(0), NestedTable(0), NestedTable(4)>>,
     ident |-> <<LinkText, <<"T", "7", " ">>, <<"N", "a", "m", "e">>>>]

RowPool(k) ==
    IF k = "ranch"
    THEN [ncells : {MinCellsRanch - 1, MinCellsRanch, 8},
          first : {<<>>, TypeHeader, MatchHeader, TypeAA},
          link : Links, traits : {<<>>}, ident : {<<>>}]
    ELSE IF k = "animal"
    THEN [ncells : {MinCellsAnimal - 1, MinCellsAnimal},
          first : {LinkText}, link : Links, traits : {<<>>}, ident : {<<>>}]
    ELSE [ncells : {MinCellsAnimal}, first : {LinkText}, link : Links,
          traits : TraitCells, ident : {<<>>}] \cup {ScenarioRow}

\* cell.innerHTML of the identifier cell
InnerHTML(link) ==
    IF link.has
    THEN <<"<a href=", "\"">> \o link.href \o <<"\"", ">">> \o LinkText \o <<"</a>">>
    ELSE LinkText

\* ---- DynamicScraper.extract_table_data ----

ColumnField(j) ==
    IF j = 0 THEN "type"
    ELSE IF j = 2 THEN "herd_prefix"
    ELSE IF j = 3 THEN "member_name"
    ELSE IF j = 4 THEN "dba"
    ELSE IF j = 5 THEN "city"
    ELSE IF j = 6 THEN "state"
    ELSE "column_" \o ToString(j)

RanchKeeps(row) ==
    /\ row.ncells >= MinCellsRanch
    /\ ~Contains(ProfilesMatch, Strip(row.first))
    /\ Strip(row.first) # TypeHeader
    /\ Strip(row.first) # <<>>

RanchRowData(row) ==
    [k \in {ColumnField(j) : j \in (0..(row.ncells - 1)) \ {1}}
            \cup {"member_id_html", "member_id"} |->
        IF k = "member_id_html" THEN Strip(InnerHTML(row.link))
        ELSE IF k = "member_id" THEN Strip(LinkText)
        ELSE IF k = "type" THEN Strip(row.first)
        ELSE Strip(CellText(CHOOSE j \in 2..(row.ncells - 1) : ColumnField(j) = k))]

\* ---- AnimalSearchScraper._extract_results ----

AnimalKeeps(row) ==
    LET regUrl == IF row.link.has THEN row.link.href ELSE <<>>
    IN  /\ row.ncells >= MinCellsAnimal
        /\ ~(regUrl = <<>> \/ regUrl = HrefHash \/ Contains(JavascriptScheme, regUrl))

AnimalRowData(row) ==
    [registration |-> Strip(row.first),
     registration_url |-> IF row.link.has THEN row.link.href ELSE <<>>,
     \* cells[1], cells[2], cells[3]: the sample texts of the cells after the first
     prefix_tattoo |-> Strip(CellText(2)),
     name |-> Strip(CellText(3)),
     birthdate |-> Strip(CellText(4))]

\* ---- EPDSearchScraper.extract_table_data ----

Traits ==
    <<"CED", "BW", "WW", "YW", "MK", "TM", "CEM", "ST", "YG", "CW", "REA", "FAT",
      "MB", "$CEZ", "$BMI", "$CPI", "$F">>

\* sub-rows 3 and 4 read in the other order
TraitFieldsSwapped(trait, sub) ==
    IF Len(sub) >= SubRowsNeeded
    THEN (trait \o "_epd") :> Strip(sub[1]) @@ (trait \o "_change") :> Strip(sub[2])
         @@ (trait \o "_acc") :> Strip(sub[4]) @@ (trait \o "_rank") :> Strip(sub[3])
    ELSE EmptyRecord

\* rows.length > 4 in place of rows.length >= 4
TraitFieldsOffByOne(trait, sub) ==
    IF Len(sub) > SubRowsNeeded
    THEN (trait \o "_epd") :> Strip(sub[1]) @@ (trait \o "_change") :> Strip(sub[2])
         @@ (trait \o "_acc") :> Strip(sub[3]) @@ (trait \o "_rank") :> Strip(sub[4])
    ELSE EmptyRecord

\* the fields one trait cell adds to animalData
TraitFields(trait, sub) ==
    IF Len(sub) >= SubRowsNeeded
    THEN (trait \o "_epd") :> Strip(sub[1]) @@ (trait \o "_change") :> Strip(sub[2])
         @@ (trait \o "_acc") :> Strip(sub[3]) @@ (trait \o "_rank") :> Strip(sub[4])
    ELSE EmptyRecord

\* the loop over epdCells: i < epdCells.length && i < traits.length
RECURSIVE AllTraitFields(_, _)
AllTraitFields(cells, i) ==
    IF i > Len(cells) \/ i > Len(Traits) THEN EmptyRecord
    ELSE AllTraitFields(cells, i + 1) @@ TraitFields(Traits[i], cells[i])

EPDRowData(row) ==
    LET linkFields == IF row.link.has
                      THEN [registration |-> Strip(row.first),
                            registration_url |-> row.link.href]
                      ELSE EmptyRecord
        \* the nested table of the first cell: tr:nth-child(2) td, tr:nth-child(3) td
        tattoo == IF Len(row.ident) >= 2 THEN "tattoo" :> Strip(row.ident[2])
                  ELSE EmptyRecord
        name == IF Len(row.ident) >= 3 THEN "name" :> Strip(row.ident[3])
                ELSE EmptyRecord
    IN  linkFields @@ tattoo @@ name @@ AllTraitFields(row.traits, 1)

EPDKeeps(row) == DOMAIN EPDRowData(row) # {}

\* ---- the three extractors on the rows of the page ----

Keeps(k, row) ==
    IF k = "ranch" THEN RanchKeeps(row)
    ELSE IF k = "animal" THEN AnimalKeeps(row)
    ELSE EPDKeeps(row)

RowData(k, row) ==
    IF k = "ranch" THEN RanchRowData(row)
    ELSE IF k = "animal" THEN AnimalRowData(row)
    ELSE EPDRowData(row)

\* each kept row put in front of the output instead of behind it
RECURSIVE KeptFromReversed(_, _, _)
KeptFromReversed(k, rs, i) ==
    IF i > Len(rs) THEN <<>>
    ELSE KeptFromReversed(k, rs, i + 1) \o (IF Keeps(k, rs[i]) THEN <<i>> ELSE <<>>)

\* the indices of the rows that are pushed to the output, in loop order
RECURSIVE KeptFrom(_, _, _)
KeptFrom(k, rs, i) ==
    IF i > Len(rs) THEN <<>>
    ELSE (IF Keeps(k, rs[i]) THEN <<i>> ELSE <<>>) \o KeptFrom(k, rs, i + 1)

Kept(k, rs) == KeptFrom(k, rs, 1)

\* the list an extractor returns for the rows rs
Extracted(k, rs) ==
    CleanTableData(AsStrings([n \in 1..Len(Kept(k, rs)) |-> RowData(k, rs[Kept(k, rs)[n]])]))

xOther == <<rvars, svars, cvars, evars, qvars, tvars>>

XInit ==
    /\ kind \in Kinds
    /\ rows = <<>>
    /\ results = <<>>
    /\ origin = <<>>
    /\ xpc = "page"
    /\ pageOpen = TRUE
    /\ selectPresent = FALSE
    /\ dropdown = <<>>
    /\ user_input = <<>>
    /\ options = <<>>
    /\ mapped = None
    /\ rpc = "page"
    /\ SIdle
    /\ CIdle
    /\ EIdle
    /\ QIdle
    /\ TIdle

\* the site renders one more row into the result table
PageAddRow ==
    /\ xpc = "page"
    /\ pageOpen
    /\ Len(rows) < MaxRows
    /\ \E row \in RowPool(kind) : rows' = Append(rows, row)
    /\ UNCHANGED <<kind, results, origin, xpc>>
    /\ UNCHANGED xOther

\* the page is closed before the extractor runs
PageCloseBeforeExtract ==
    /\ xpc = "page"
    /\ pageOpen
    /\ pageOpen' = FALSE
    /\ UNCHANGED <<selectPresent, dropdown, user_input, options, mapped, rpc>>
    /\ UNCHANGED <<xvars, svars, cvars, evars, qvars, tvars>>

\* extract_table_data / _extract_results: the page walk and clean_table_data,
\* or [] when evaluate raises
Extract ==
    /\ xpc = "page"
    /\ IF pageOpen
       THEN /\ results' = Extracted(kind, rows)
            /\ origin' = Kept(kind, rows)
            /\ xpc' = "extracted"
       ELSE /\ results' = <<>>
            /\ origin' = <<>>
            /\ xpc' = "failed"
    /\ UNCHANGED <<kind, rows>>
    /\ UNCHANGED xOther

XNext == PageAddRow \/ PageCloseBeforeExtract \/ Extract

SpecExtract == XInit /\ [][XNext]_vars

-----------------------------------------------------------------------------
(* Claims about the extractors, checked under SpecExtract *)

ValidTarget(href) ==
    /\ href # <<>>
    /\ href # HrefHash
    /\ ~Contains(JavascriptScheme, href)

\* C9: every record of an extractor's output comes from a row that has a link
\* whose target is not empty, not '#' and not a javascript: pseudo-protocol, and
\* a reference field it carries holds such a target.
C9_NoInvalidReferenceTarget ==
    xpc = "extracted" =>
        \A n \in 1..Len(results) :
            /\ rows[origin[n]].link.has
            /\ ValidTarget(rows[origin[n]].link.href)
            /\ "registration_url" \in DOMAIN results[n]
                  => ValidTarget(results[n]["registration_url"])

TraitKeys(trait) ==
    {trait \o "_epd", trait \o "_change", trait \o "_acc", trait \o "_rank"}

OtherKeys(c) ==
    {"registration", "registration_url", "tattoo", "name"}
        \cup UNION {TraitKeys(Traits[d]) : d \in (1..Len(Traits)) \ {c}}

\* C10: for every EPD result row and every trait cell whose nested table has
\* four sub-rows, the row's record has exactly four fields for that trait, the
\* first holding the text of sub-row 1 (value), then change, accuracy and rank.
C10_FourFieldsPerTrait ==
    (xpc = "extracted" /\ kind = "epd") =>
        \A i \in 1..Len(rows) :
            \A c \in 1..Len(rows[i].traits) :
                (c <= Len(Traits) /\ Len(rows[i].traits[c]) = 4) =>
                    /\ Cardinality({n \in 1..Len(results) : origin[n] = i}) = 1
                    /\ \A n \in 1..Len(results) :
                          origin[n] = i =>
                            LET rec == results[n]
                                t == Traits[c]
                                sub == rows[i].traits[c]
                            IN  /\ DOMAIN rec \ OtherKeys(c) = TraitKeys(t)
                                /\ Cardinality(TraitKeys(t)) = 4
                                /\ rec[t \o "_epd"] = CleanValue(sub[1])
                                /\ rec[t \o "_change"] = CleanValue(sub[2])
                                /\ rec[t \o "_acc"] = CleanValue(sub[3])
                                /\ rec[t \o "_rank"] = CleanValue(sub[4])

C10_Witness ==
    /\ xpc = "extracted"
    /\ kind = "epd"
    /\ Len(rows) = 2
    /\ \E n \in 1..Len(results) :
          /\ origin[n] = 2
          /\ Len(rows[2].traits) = 1
          /\ Len(rows[2].traits[1]) = 4
          /\ "CED_rank" \in DOMAIN results[n]
          /\ results[n]["CED_acc"] = <<"8", "7">>

-----------------------------------------------------------------------------
(* The scrape operations: scrape_ranches, scrape_animals, scrape_epd *)

\* max_wait_time, check_interval and the one second wait of
\* EPDSearchScraper.wait_for_results; range(60) of _wait_for_results
MaxWaitTime == 120
CheckInterval == 2
IdleInterval == 1
AnimalPolls == 60

Range(seq) == {seq[n] : n \in 1..Len(seq)}

\* the selector wait_for_form_ready waits for
FormRoot(k) ==
    IF k = "ranch" THEN ".blog li"
    ELSE IF k = "animal" THEN "#tbl_animal_search"
    ELSE "#epd_search"

\* the controls validate_required_fields looks for
Required(k) ==
    IF k = "ranch"
    THEN {"ranch_search_val", "ranch_search_city", "ranch_search_id",
          "ranch_search_prefix", "search-member-location"}
    ELSE IF k = "animal"
    THEN {"#tbl_animal_search", "animal_search_sex", "animal_search_fld",
          "animal_search_val", "btnAnimalSubmit"}
    ELSE {"#epd_search", "input[name=\"search_sex\"]", "Search button",
          "EPD trait fields"}

\* what validate_required_fields reports on a page with the controls cs when
\* the selector lookups of failed raise and, for EPD, the evaluate raises
MissingFields(k, cs, failed, evaluateRaises) ==
    IF k = "epd"
    THEN IF evaluateRaises THEN {"<str(e)>"}
         ELSE ((Required(k) \ {"EPD trait fields"}) \ cs)
              \cup (failed \ {"EPD trait fields"})
              \cup (IF {"#epd_search", "EPD trait fields"} \subseteq cs
                    THEN {} ELSE {"EPD trait fields"})
    ELSE (Required(k) \ cs) \cup failed

\* the stage after validation that goes on regardless of missing fields
AfterValidateRegardless(k, miss) ==
    IF k = "animal" THEN "defaults" ELSE "fill"

\* if not valid: return []
AfterValidate(k, miss) ==
    IF miss # {} THEN "finally"
    ELSE IF k = "animal" THEN "defaults" ELSE "fill"

\* result pages the site can show after a search
SampleRows(k) ==
    IF k = "ranch"
    THEN <<[ncells |-> 8, first |-> TypeHeader, link |-> [has |-> FALSE, href |-> <<>>],
            traits |-> <<>>, ident |-> <<>>],
           [ncells |-> 8, first |-> TypeAA, link |-> [has |-> TRUE, href |-> HrefDetail],
            traits |-> <<>>, ident |-> <<>>]>>
    ELSE IF k = "animal"
    THEN <<[ncells |-> MinCellsAnimal, first |-> LinkText,
            link |-> [has |-> TRUE, href |-> HrefDetail], traits |-> <<>>, ident |-> <<>>],
           [ncells |-> MinCellsAnimal, first |-> LinkText,
            link |-> [has |-> TRUE, href |-> HrefHash], traits |-> <<>>, ident |-> <<>>]>>
    ELSE <<ScenarioRow>>

\* the states of the result area: the result rows are inside #dvSearchResults
\* on the ranch and the animal page, and so is the ranch page's message
PageStates(k) ==
    {p \in [rows : {<<>>, SampleRows(k)}, marker : BOOLEAN, loading : BOOLEAN,
            container : BOOLEAN] :
        /\ k = "epd" => ~p.container
        /\ k = "animal" => (~p.marker /\ ~p.loading /\ (p.rows # <<>> => p.container))
        /\ k = "ranch" => (~p.loading /\ ((p.rows # <<>> \/ p.marker) => p.container))}

\* the sub-step a poller starts with
FirstPoll(k) ==
    IF k = "ranch" THEN "selector" ELSE IF k = "animal" THEN "poll" ELSE "rows"

\* the poller of the kind treats only found rows as success
WaitReturnsRowsOnly(k, state) == state = "RowsFound"

\* the boolean the poller returns to the scrape operation
WaitReturns(k, state) ==
    IF k = "epd" THEN state \in {"RowsFound", "ExplicitEmpty", "TimedOut"}
    ELSE IF k = "animal" THEN state = "RowsFound"
    ELSE state \in {"RowsFound", "ExplicitEmpty"}

\* the wait of a tick that finds the page idle does not count
NextElapsedIdleFree(elapsed, isLoading) ==
    IF ~isLoading THEN elapsed ELSE elapsed + CheckInterval

\* elapsed_time after the wait of one tick
NextElapsed(elapsed, isLoading) ==
    IF ~isLoading THEN elapsed + IdleInterval ELSE elapsed + CheckInterval

\* while elapsed_time < max_wait_time
LoopContinues(elapsed) == elapsed < MaxWaitTime

sOther == <<rvars, xpc, cvars, evars, qvars, tvars>>

SInit ==
    /\ kind \in Kinds
    /\ pc = "start"
    /\ stages = <<>>
    /\ controls \in SUBSET (Required(kind) \cup {FormRoot(kind)})
    /\ hasFunc \in BOOLEAN
    /\ hasButton \in (IF kind = "ranch" THEN BOOLEAN ELSE {FALSE})
    /\ rows = <<>>
    /\ marker = FALSE
    /\ loading = FALSE
    /\ container = FALSE
    /\ missing = {}
    /\ probed = FALSE
    /\ trigger = "none"
    /\ ppc = "idle"
    /\ elapsed_time = 0
    /\ ticks = 0
    /\ has_results = FALSE
    /\ no_results = [noResults |-> FALSE, loading |-> FALSE]
    /\ seenMarker = FALSE
    /\ readiness = "Pending"
    /\ results = <<>>
    /\ origin = <<>>
    /\ xpc = "page"
    /\ pageOpen = TRUE
    /\ selectPresent = FALSE
    /\ dropdown = <<>>
    /\ user_input = <<>>
    /\ options = <<>>
    /\ mapped = None
    /\ rpc = "page"
    /\ CIdle
    /\ EIdle
    /\ QIdle
    /\ TIdle

\* a handler that is run again when it failed
StageRetried(name, next, succeeded) ==
    /\ stages' = Append(stages, name)
    /\ pc' = IF succeeded THEN next ELSE pc

\* a handler of the scrape operation ran: on success the operation goes on to
\* next, on failure it returns [] through the finally block
Stage(name, next, succeeded) ==
    /\ stages' = Append(stages, name)
    /\ pc' = IF succeeded THEN next ELSE "finally"

\* init_browser and browser.new_page; an exception is caught by scrape_*
InitBrowser ==
    /\ pc = "start"
    /\ \E ok \in BOOLEAN : Stage("init_browser", "navigate", ok)
    /\ UNCHANGED <<kind, rows, results, origin, missing, probed, trigger, pagevars,
                   pollvars>>
    /\ UNCHANGED sOther

\* navigate_to_site: page.goto
NavigateToSite ==
    /\ pc = "navigate"
    /\ \E ok \in BOOLEAN : Stage("navigate", "form_ready", ok)
    /\ UNCHANGED <<kind, rows, results, origin, missing, probed, trigger, pagevars,
                   pollvars>>
    /\ UNCHANGED sOther

\* wait_for_form_ready / wait_for_epd_form_ready: wait_for_selector of the form root
WaitForFormReady ==
    /\ pc = "form_ready"
    /\ \E ok \in BOOLEAN : Stage("form_ready", "validate", ok /\ FormRoot(kind) \in controls)
    /\ UNCHANGED <<kind, rows, results, origin, missing, probed, trigger, pagevars,
                   pollvars>>
    /\ UNCHANGED sOther

\* validate_required_fields and the test of its result in scrape_*
ValidateRequiredFields ==
    /\ pc = "validate"
    /\ \E failed \in SUBSET Required(kind) :
          \E evaluateRaises \in BOOLEAN :
              LET miss == MissingFields(kind, controls, failed, evaluateRaises)
              IN  /\ missing' = miss
                  /\ stages' = Append(stages, "validate")
                  /\ pc' = AfterValidate(kind, miss)
    /\ UNCHANGED <<kind, rows, results, origin, probed, trigger, pagevars, pollvars>>
    /\ UNCHANGED sOther

\* AnimalFormParser.ensure_form_defaults: its exception is swallowed
EnsureFormDefaults ==
    /\ pc = "defaults"
    /\ Stage("defaults", "fill", TRUE)
    /\ UNCHANGED <<kind, rows, results, origin, missing, probed, trigger, pagevars,
                   pollvars>>
    /\ UNCHANGED sOther

\* fill_search_form / fill_form
FillSearchForm ==
    /\ pc = "fill"
    /\ \E ok \in BOOLEAN : Stage("fill", "trigger", ok)
    /\ UNCHANGED <<kind, rows, results, origin, missing, probed, trigger, pagevars,
                   pollvars>>
    /\ UNCHANGED sOther

\* the mechanism trigger_search uses: the probe answered (probeOk) or raised
TriggerMechanism(k, probeOk, func, button) ==
    IF k = "ranch"
    THEN IF probeOk /\ func THEN "function"
         ELSE IF button THEN "button"
         ELSE "none"
    ELSE IF k = "animal"
    THEN IF ~probeOk THEN "none" ELSE IF func THEN "function" ELSE "button"
    ELSE "function"

\* trigger_search: ranch asks get_search_button_info, animal evaluates typeof,
\* EPD evaluates doSearch_Epd() with no probe (it raises when undefined)
TriggerSearch ==
    /\ pc = "trigger"
    /\ \E probeOk \in BOOLEAN :
          \E ok \in BOOLEAN :
              LET mech == TriggerMechanism(kind, probeOk, hasFunc, hasButton)
              IN  /\ probed' = (kind # "epd" /\ probeOk)
                  /\ trigger' = mech
                  /\ Stage("trigger", "wait",
                           ok /\ mech # "none" /\ (kind = "epd" => hasFunc))
    /\ ppc' = FirstPoll(kind)
    /\ UNCHANGED <<kind, rows, results, origin, missing, pagevars>>
    /\ UNCHANGED <<elapsed_time, ticks, has_results, no_results, seenMarker, readiness>>
    /\ UNCHANGED sOther

\* the stage log after the handler name has started, if it had not
Entered(name) ==
    IF stages # <<>> /\ stages[Len(stages)] = name THEN stages ELSE Append(stages, name)

\* the poller returns: scrape_* goes on to extraction or returns []
Leave(state) ==
    /\ readiness' = state
    /\ ppc' = "done"
    /\ pc' = IF WaitReturns(kind, state) THEN "extract" ELSE "finally"

\* EPDSearchScraper.wait_for_results: the row query of one tick
EPDPollRows ==
    /\ pc = "wait"
    /\ kind = "epd"
    /\ ppc = "rows"
    /\ stages' = Entered("wait")
    /\ ticks' = ticks + 1
    /\ \E ok \in BOOLEAN :
          IF ~ok
          THEN /\ Leave("Error")
               /\ UNCHANGED <<has_results, seenMarker>>
          ELSE /\ has_results' = (rows # <<>>)
               /\ seenMarker' = marker
               /\ IF rows # <<>>
                  THEN Leave("RowsFound")
                  ELSE /\ ppc' = "marker"
                       /\ UNCHANGED <<pc, readiness>>
    /\ UNCHANGED <<kind, rows, results, origin, missing, probed, trigger, pagevars>>
    /\ UNCHANGED <<elapsed_time, no_results>>
    /\ UNCHANGED sOther

\* EPDSearchScraper.wait_for_results: the marker query of the tick, the wait
\* and the loop test
EPDPollMarker ==
    /\ pc = "wait"
    /\ kind = "epd"
    /\ ppc = "marker"
    /\ \E ok \in BOOLEAN :
          \E sleepOk \in BOOLEAN :
              IF ~ok
              THEN /\ Leave("Error")
                   /\ UNCHANGED <<no_results, elapsed_time>>
              ELSE /\ no_results' = [noResults |-> marker, loading |-> loading]
                   /\ IF marker
                      THEN /\ Leave("ExplicitEmpty")
                           /\ UNCHANGED elapsed_time
                      ELSE IF ~sleepOk
                      THEN /\ Leave("Error")
                           /\ UNCHANGED elapsed_time
                      ELSE /\ elapsed_time' = NextElapsed(elapsed_time, loading)
                           /\ IF LoopContinues(NextElapsed(elapsed_time, loading))
                              THEN /\ ppc' = "rows"
                                   /\ UNCHANGED <<pc, readiness>>
                              ELSE Leave("TimedOut")
    /\ UNCHANGED <<kind, rows, results, origin, missing, probed, trigger, pagevars>>
    /\ UNCHANGED <<stages, ticks, has_results, seenMarker>>
    /\ UNCHANGED sOther

\* AnimalSearchScraper._wait_for_results: one iteration of for _ in range(60)
AnimalPoll ==
    /\ pc = "wait"
    /\ kind = "animal"
    /\ ppc = "poll"
    /\ stages' = Entered("wait")
    /\ ticks' = ticks + 1
    /\ \E ok \in BOOLEAN :
          IF ~ok
          THEN /\ Leave("Error")
               /\ UNCHANGED has_results
          ELSE /\ has_results' = (container /\ rows # <<>>)
               /\ IF container /\ rows # <<>>
                  THEN Leave("RowsFound")
                  ELSE IF ticks + 1 < AnimalPolls
                  THEN UNCHANGED <<pc, ppc, readiness>>
                  ELSE Leave("TimedOut")
    /\ UNCHANGED <<kind, rows, results, origin, missing, probed, trigger, pagevars>>
    /\ UNCHANGED <<elapsed_time, no_results, seenMarker>>
    /\ UNCHANGED sOther

\* DynamicScraper.wait_for_results: wait_for_selector('#dvSearchResults')
RanchWaitSelector ==
    /\ pc = "wait"
    /\ kind = "ranch"
    /\ ppc = "selector"
    /\ stages' = Entered("wait")
    /\ \E ok \in BOOLEAN :
          IF ok /\ container
          THEN /\ ppc' = "content"
               /\ UNCHANGED <<pc, readiness>>
          ELSE Leave(IF ok THEN "TimedOut" ELSE "Error")
    /\ UNCHANGED <<kind, rows, results, origin, missing, probed, trigger, pagevars>>
    /\ UNCHANGED <<elapsed_time, ticks, has_results, no_results, seenMarker>>
    /\ UNCHANGED sOther

\* DynamicScraper.wait_for_results: the three second wait and the test of
\* inner_text('#dvSearchResults').strip()
RanchReadContent ==
    /\ pc = "wait"
    /\ kind = "ranch"
    /\ ppc = "content"
    /\ \E ok \in BOOLEAN :
          IF ~ok \/ ~container
          THEN /\ Leave("Error")
               /\ UNCHANGED has_results
          ELSE /\ has_results' = (rows # <<>> \/ marker)
               /\ Leave(IF rows # <<>> THEN "RowsFound"
                        ELSE IF marker THEN "ExplicitEmpty"
                        ELSE "TimedOut")
    /\ UNCHANGED <<kind, rows, results, origin, missing, probed, trigger, pagevars>>
    /\ UNCHANGED <<stages, elapsed_time, ticks, no_results, seenMarker>>
    /\ UNCHANGED sOther

\* extract_table_data / _extract_results on the page as it is now
ExtractResults ==
    /\ pc = "extract"
    /\ stages' = Append(stages, "extract")
    /\ pc' = "finally"
    /\ \E ok \in BOOLEAN :
          /\ results' = IF ok THEN Extracted(kind, rows) ELSE <<>>
          /\ origin' = IF ok THEN Kept(kind, rows) ELSE <<>>
    /\ UNCHANGED <<kind, rows, missing, probed, trigger, pagevars, pollvars>>
    /\ UNCHANGED sOther

\* the finally block: browser.close(), playwright.stop(), and the return
Finally ==
    /\ pc = "finally"
    /\ pc' = "returned"
    /\ UNCHANGED <<kind, rows, results, origin, stages, missing, probed, trigger,
                   pagevars, pollvars>>
    /\ UNCHANGED sOther

\* the site answers the search: the result area changes under the poller
PageChange ==
    /\ pc \in {"wait", "extract"}
    /\ \E p \in PageStates(kind) :
          /\ <<p.rows, p.marker, p.loading, p.container>>
                # <<rows, marker, loading, container>>
          /\ rows' = p.rows
          /\ marker' = p.marker
          /\ loading' = p.loading
          /\ container' = p.container
    /\ UNCHANGED <<kind, results, origin, pc, stages, missing, probed, trigger,
                   controls, hasFunc, hasButton, pollvars>>
    /\ UNCHANGED sOther

SNext ==
    \/ InitBrowser
    \/ NavigateToSite
    \/ WaitForFormReady
    \/ ValidateRequiredFields
    \/ EnsureFormDefaults
    \/ FillSearchForm
    \/ TriggerSearch
    \/ EPDPollRows
    \/ EPDPollMarker
    \/ AnimalPoll
    \/ RanchWaitSelector
    \/ RanchReadContent
    \/ ExtractResults
    \/ Finally
    \/ PageChange

SpecScrape == SInit /\ [][SNext]_vars

-----------------------------------------------------------------------------
(* Claims about the scrape operations, checked under SpecScrape *)

Ran(name) == name \in Range(stages)

Returning == pc \in {"finally", "returned"}

\* C5: once validation has reported a required control missing, the scrape
\* operation of every kind is on its way out with an empty list: no defaults,
\* fill, submit, readiness wait or extraction has run or will run, nothing was
\* submitted or polled, and validation ran once.
C5_FailFastOnMissingControl ==
    (Ran("validate") /\ missing # {}) =>
        /\ Returning
        /\ results = <<>>
        /\ Range(stages) \cap {"defaults", "fill", "trigger", "wait", "extract"} = {}
        /\ trigger = "none"
        /\ ticks = 0
        /\ readiness = "Pending"
        /\ Cardinality({n \in 1..Len(stages) : stages[n] = "validate"}) = 1

C5_Witness ==
    /\ pc = "returned"
    /\ kind = "epd"
    /\ Ran("validate")
    /\ missing = {"EPD trait fields"}
    /\ results = <<>>

PollerEnded == Ran("wait") /\ pc # "wait"

\* C6: the EPD and the animal poller stop after a bounded number of ticks
\* (at most max_wait_time for EPD, 60 for animal), elapsed_time never exceeds
\* max_wait_time + check_interval, and a poller that has ended without a
\* driver call raising has ended as exactly one of RowsFound, ExplicitEmpty,
\* TimedOut, as TimedOut only at its bound.
C6_PollerTerminates ==
    kind \in {"epd", "animal"} =>
        /\ elapsed_time <= MaxWaitTime + CheckInterval
        /\ ticks <= (IF kind = "epd" THEN MaxWaitTime ELSE AnimalPolls)
        /\ readiness = "TimedOut" =>
              IF kind = "epd" THEN elapsed_time >= MaxWaitTime ELSE ticks = AnimalPolls
        /\ readiness # "Pending" => PollerEnded
        /\ PollerEnded =>
              \/ readiness = "Error"
              \/ readiness \in {"RowsFound", "ExplicitEmpty", "TimedOut"}

C6_Witness ==
    /\ kind = "epd"
    /\ pc = "returned"
    /\ readiness = "TimedOut"
    /\ elapsed_time = MaxWaitTime + 1
    /\ ticks > AnimalPolls

\* C7: in every search type, a scrape whose readiness wait ended as TimedOut
\* has attempted extraction before it returns.
C7_TimedOutStillExtracts ==
    (readiness = "TimedOut" /\ Returning) => Ran("extract")

\* C8: in scrape_epd, a row query that finds a row ends the poller as
\* RowsFound whether or not the marker is shown; the poller ends as
\* ExplicitEmpty only after a row query that found no row and a marker query
\* that found the marker; after either outcome extraction runs, and an
\* explicit empty result page gives the empty list.
C8_RowsBeforeMarker ==
    kind = "epd" =>
        /\ has_results <=> readiness = "RowsFound"
        /\ readiness = "ExplicitEmpty" => (~has_results /\ no_results.noResults)
        /\ readiness \in {"RowsFound", "ExplicitEmpty"} =>
              /\ pc # "wait"
              /\ pc = "extract" \/ Ran("extract")
        /\ (readiness = "ExplicitEmpty" /\ Returning /\ rows = <<>>) =>
              (Ran("extract") /\ results = <<>>)

C8_Witness ==
    /\ kind = "epd"
    /\ pc = "returned"
    /\ readiness = "RowsFound"
    /\ seenMarker
    /\ marker
    /\ results # <<>>

-----------------------------------------------------------------------------
(* Further claims about the extractors, checked under SpecExtract *)

\* the cleaned texts of the scenario's sub-rows '+1.2', '+0.1', '87', '12'
ScenarioValue == <<"+", "1", ".", "2">>
ScenarioChange == <<"+", "0", ".", "1">>
ScenarioAccuracy == <<"8", "7">>
ScenarioRank == <<"1", "2">>

FromScenarioRow(n) ==
    /\ n \in 1..Len(results)
    /\ rows[origin[n]] = ScenarioRow

\* the statement of C11 as written: the WW block of the scenario gives the
\* fields WW_value, WW_change, WW_accuracy and WW_rank
C11_Original ==
    (xpc = "extracted" /\ kind = "epd") =>
        \A n \in 1..Len(results) :
            FromScenarioRow(n) =>
                /\ {"WW_value", "WW_change", "WW_accuracy", "WW_rank"} \subseteq DOMAIN results[n]
                /\ results[n]["WW_value"] = ScenarioValue
                /\ results[n]["WW_change"] = ScenarioChange
                /\ results[n]["WW_accuracy"] = ScenarioAccuracy
                /\ results[n]["WW_rank"] = ScenarioRank

\* C11 (amended): the four fields of a nested trait block of trait T are named
\* T_epd, T_change, T_acc and T_rank: the WW block of the scenario gives
\* WW_epd = '+1.2', WW_change = '+0.1', WW_acc = '87', WW_rank = '12', and no
\* record has a field named T_value or T_accuracy.
C11_TraitFieldNames ==
    (xpc = "extracted" /\ kind = "epd") =>
        \A n \in 1..Len(results) :
            /\ \A c \in 1..Len(Traits) :
                  DOMAIN results[n] \cap {Traits[c] \o "_value", Traits[c] \o "_accuracy"} = {}
            /\ FromScenarioRow(n) =>
                  /\ {"WW_epd", "WW_change", "WW_acc", "WW_rank"} \subseteq DOMAIN results[n]
                  /\ results[n]["WW_epd"] = ScenarioValue
                  /\ results[n]["WW_change"] = ScenarioChange
                  /\ results[n]["WW_acc"] = ScenarioAccuracy
                  /\ results[n]["WW_rank"] = ScenarioRank

C11_Witness ==
    /\ xpc = "extracted"
    /\ kind = "epd"
    /\ \E n \in 1..Len(results) :
          /\ FromScenarioRow(n)
          /\ results[n]["WW_epd"] = ScenarioValue

\* the identifier N of the link text '*xN'
ScenarioIdentifier == <<"1", "2", "3", "4", "5">>

\* C12: a record extracted from a row whose identifier cell is
\* <a href="detail.php?id=55">*x12345</a> has the identifier '12345', without
\* the '*x' marker, and the reference target 'detail.php?id=55'.
C12_MarkerStripped ==
    (xpc = "extracted" /\ kind \in {"animal", "epd"}) =>
        \A n \in 1..Len(results) :
            ( /\ rows[origin[n]].link = [has |-> TRUE, href |-> HrefDetail]
              /\ rows[origin[n]].first = LinkText )
            => /\ results[n]["registration"] = ScenarioIdentifier
               /\ results[n]["registration_url"] = HrefDetail

\* C13: the output of an extractor is a subsequence of the rows of the page
\* in document order: every record comes from one row, no two records from
\* the same row, the records are in the order of their rows, each record is
\* the cleaned data of its row, and two equal rows give two records.
C13_OutputIsSubsequence ==
    xpc = "extracted" =>
        /\ Len(results) = Len(origin)
        /\ Len(results) <= Len(rows)
        /\ \A n \in 1..Len(origin) : origin[n] \in 1..Len(rows)
        /\ \A m, n \in 1..Len(origin) : m < n => origin[m] < origin[n]
        /\ \A n \in 1..Len(results) :
              /\ DOMAIN results[n] = DOMAIN RowData(kind, rows[origin[n]])
              /\ \A f \in DOMAIN results[n] :
                    results[n][f] = CleanValue(RowData(kind, rows[origin[n]])[f])
        /\ \A i, j \in 1..Len(rows) :
              (rows[i] = rows[j] /\ \E n \in 1..Len(origin) : origin[n] = i)
              => \E n \in 1..Len(origin) : origin[n] = j

C13_Witness ==
    /\ xpc = "extracted"
    /\ Len(rows) = 2
    /\ rows[1] = rows[2]
    /\ origin = <<1, 2>>
    /\ results[1] = results[2]

-----------------------------------------------------------------------------
(* clean_table_data as a function of any table *)

\* values a row can hold: the texts of test_clean_table_data, texts with
\* inner runs of whitespace, None, a number and a list
PyValues ==
    {PyStr(<<" ", " ", "A", "A", " ", " ">>), PyStr(<<"B", "B">>),
     PyStr(<<" ", "x", " ", "\n", "\t", " ", "y">>), PyStr(<<>>),
     PyNone, PyOther(<<"5">>),
     PyOther(<<"[", "'", "a", " ", " ", "b", "'", "]">>)}

CleanRowPool == [{"type"} -> PyValues] \cup [{"type", "city"} -> PyValues]

cOther == <<rvars, xvars, svars, evars, qvars, tvars>>

CInit ==
    /\ data \in UNION {[1..n -> CleanRowPool] : n \in 0..MaxCleanRows}
    /\ cleaned = <<>>
    /\ recleaned = <<>>
    /\ cpc = "raw"
    /\ pageOpen = TRUE
    /\ selectPresent = FALSE
    /\ dropdown = <<>>
    /\ user_input = <<>>
    /\ options = <<>>
    /\ mapped = None
    /\ rpc = "page"
    /\ kind = "ranch"
    /\ rows = <<>>
    /\ results = <<>>
    /\ origin = <<>>
    /\ xpc = "page"
    /\ SIdle
    /\ EIdle
    /\ QIdle
    /\ TIdle

\* cleaned = clean_table_data(data)
CleanTable ==
    /\ cpc = "raw"
    /\ cleaned' = CleanTableData(data)
    /\ cpc' = "cleaned"
    /\ UNCHANGED <<data, recleaned>>
    /\ UNCHANGED cOther

\* clean_table_data(cleaned): every value of cleaned is a str
CleanAgain ==
    /\ cpc = "cleaned"
    /\ recleaned' = CleanTableData(AsStrings(cleaned))
    /\ cpc' = "recleaned"
    /\ UNCHANGED <<data, cleaned>>
    /\ UNCHANGED cOther

CNext == CleanTable \/ CleanAgain

SpecClean == CInit /\ [][CNext]_vars

\* no whitespace at either end, no whitespace but single spaces inside
Normalised(s) ==
    /\ \A i \in 1..Len(s) : IsSpace(s[i]) => s[i] = " "
    /\ s # <<>> => (s[1] # " " /\ s[Len(s)] # " ")
    /\ \A i \in 1..(Len(s) - 1) : ~(s[i] = " " /\ s[i + 1] = " ")

IsInk(c) == ~IsSpace(c)

\* C14: clean_table_data gives one row per input row, in order and with the
\* same keys; every str value comes out trimmed, with every run of whitespace
\* one space and its other characters kept; cleaning the output again gives
\* the output.
C14_CleanIsIdempotent ==
    /\ cpc \in {"cleaned", "recleaned"} =>
          /\ Len(cleaned) = Len(data)
          /\ \A n \in 1..Len(data) :
                /\ DOMAIN cleaned[n] = DOMAIN data[n]
                /\ \A k \in DOMAIN data[n] :
                      data[n][k].tag = "str" =>
                          /\ Normalised(cleaned[n][k])
                          /\ SelectSeq(cleaned[n][k], IsInk) = SelectSeq(data[n][k].text, IsInk)
    /\ cpc = "recleaned" => recleaned = cleaned

-----------------------------------------------------------------------------
(* Batch detail enrichment: DynamicScraper.enrich_with_member_details,        *)
(* EPDSearchCLI._view_all_animal_details, AnimalSearchCLI._view_animal_details *)

\* f without the keys of ks
Without(f, ks) == [k \in (DOMAIN f) \ ks |-> f[k]]

\* dict.update: the keys of both, the values of upd where it has the key
Update(f, upd) == upd @@ f

\* a ranch result row with the given member-id link, as extract_table_data
\* returns it, told apart by its member name
RanchRecord(link, name) ==
    [Extracted("ranch", <<[ncells |-> 8, first |-> TypeAA, link |-> link,
                          traits |-> <<>>, ident |-> <<>>]>>)[1]
        EXCEPT !["member_name"] = name]

AnimalRecord(name) ==
    [Extracted("animal", <<SampleRows("animal")[1]>>)[1] EXCEPT !["name"] = name]

\* the records a caller can pass to the batch enrichment of kind k
BatchPool(k) ==
    IF k = "ranch"
    THEN {RanchRecord([has |-> TRUE, href |-> HrefDetail], <<"N", "1">>),
          RanchRecord([has |-> FALSE, href |-> <<>>], <<"N", "2">>),
          RanchRecord([has |-> TRUE, href |-> HrefEmpty], <<"N", "3">>),
          [RanchRecord([has |-> FALSE, href |-> <<>>], <<"N", "4">>)
              EXCEPT !["member_id_html"] = <<>>],
          Without(RanchRecord([has |-> FALSE, href |-> <<>>], <<"N", "5">>),
                  {"member_id_html"})}
    ELSE {AnimalRecord(<<"N", "1">>),
          AnimalRecord(<<"N", "2">>),
          [AnimalRecord(<<"N", "3">>) EXCEPT !["registration_url"] = <<>>],
          Without(AnimalRecord(<<"N", "4">>), {"registration_url"})}

\* the fields parse_profile_table reads from a member profile page
ProfileDetails ==
    {EmptyRecord,
     [breeder_type |-> <<"B">>],
     [breeder_type |-> <<"B">>, profile_type |-> <<"P">>, dba |-> <<"D", "2">>,
      herd_prefix |-> <<"H", "2">>]}

\* the fields extract_animal_detail reads from an animal page; {} when it failed
AnimalDetails ==
    {EmptyRecord,
     [sire_name |-> <<"S">>],
     [registration |-> ScenarioIdentifier, tattoo |-> <<"T", "7">>,
      sire_name |-> <<"S">>]}

\* the label/value fields a detail page gives
DetailPool(k) == IF k = "ranch" THEN ProfileDetails ELSE AnimalDetails

\* ---- the reference of a ranch record ----

\* ranch.get('member_id_html', ranch.get('member_id', ranch.get('Member ID', '')))
MemberIdHtml(r) ==
    IF "member_id_html" \in DOMAIN r THEN r["member_id_html"]
    ELSE IF "member_id" \in DOMAIN r THEN r["member_id"]
    ELSE IF "Member ID" \in DOMAIN r THEN r["Member ID"]
    ELSE <<>>

\* the positions where href="([^"]+)" matches: the quoted target is not empty
HrefMatches(html) ==
    {i \in 1..Len(html) :
        /\ html[i] = "<a href="
        /\ i + 2 <= Len(html)
        /\ html[i + 1] = "\""
        /\ html[i + 2] # "\""
        /\ \E j \in (i + 3)..Len(html) : html[j] = "\""}

\* group(1) of the first match
HrefGroup(html) ==
    LET i == Min(HrefMatches(html))
        j == Min({q \in (i + 3)..Len(html) : html[q] = "\""})
    IN  SubSeq(html, i + 2, j - 1)

\* .replace('&amp;', '&')
DecodeAmp(url) == [n \in 1..Len(url) |-> IF url[n] = "&amp;" THEN "&" ELSE url[n]]

ProfileBase == <<"https://shorthorn.digitalbeef.com/modules.php?...&member_id=">>

\* profile_url of enrich_with_member_details
ProfileUrl(html) ==
    IF Contains(<<"<a href=">>, html)
    THEN IF HrefMatches(html) # {} THEN DecodeAmp(HrefGroup(html)) ELSE <<>>
    ELSE ProfileBase \o Strip(html)

\* the fields the except branch of enrich_with_member_details writes
Placeholders ==
    [k \in {"breeder_type", "profile_type", "profile_id", "profile_name", "dba",
            "herd_prefix"} |-> <<>>]

\* ---- one record of the batch ----

\* the record is appended as it is, with no detail page visited
Skips(k, r) ==
    IF k = "ranch"
    THEN MemberIdHtml(r) = <<>> \/ ProfileUrl(MemberIdHtml(r)) = <<>>
    ELSE "registration_url" \notin DOMAIN r \/ r["registration_url"] = <<>>

\* the merge that deletes the member id with the markup
MergeDetailsDropsId(k, r, details) ==
    IF k = "ranch" THEN Without(Update(r, details), {"member_id_html", "member_id"})
    ELSE Update(r, details)

\* copy(), update(details) and, for ranch, del enriched_ranch['member_id_html']
MergeDetails(k, r, details) ==
    IF k = "ranch" THEN Without(Update(r, details), {"member_id_html"})
    ELSE Update(r, details)

\* the record appended when the visit failed: ranch writes the placeholders,
\* EPD merges the {} extract_animal_detail returned, animal appends the record
OnFailure(k, r) ==
    IF k = "ranch" THEN Update(r, Placeholders) ELSE r

\* the merge written into the caller's record
InputAfterInPlace(r, out) == out

\* the caller's record after the iteration: copy() leaves it as it was
InputAfter(r, out) == r

\* the loop ends early once a record has failed
BatchDoneOnFailure(done, total, last) == done = total \/ last = "failed"

\* the for loop over the batch is over
BatchDone(done, total, last) == done = total

LastOutcome == IF outcomes = <<>> THEN "none" ELSE outcomes[Len(outcomes)]

eOther == <<rvars, rows, results, origin, xpc, svars, cvars, qvars, tvars>>

EInit ==
    /\ kind \in Kinds
    /\ given \in UNION {[1..n -> BatchPool(kind)] : n \in 0..MaxBatch}
    /\ batch = given
    /\ enriched_results = <<>>
    /\ outcomes = <<>>
    /\ fetched = <<>>
    /\ epc = "start"
    /\ sessions_started = 0
    /\ pageOpen = TRUE
    /\ selectPresent = FALSE
    /\ dropdown = <<>>
    /\ user_input = <<>>
    /\ options = <<>>
    /\ mapped = None
    /\ rpc = "page"
    /\ rows = <<>>
    /\ results = <<>>
    /\ origin = <<>>
    /\ xpc = "page"
    /\ SIdle
    /\ CIdle
    /\ QIdle
    /\ TIdle

\* the batch is returned as it was given
ReturnInput ==
    /\ enriched_results' = batch
    /\ outcomes' = [n \in 1..Len(batch) |-> "untouched"]
    /\ fetched' = [n \in 1..Len(batch) |-> EmptyRecord]
    /\ epc' = "returned"

\* the init_browser calls before the loop: _view_all_animal_details makes one,
\* enrich_with_member_details works on the page it is given
SessionsPerBatch(k) == IF k = "epd" THEN 1 ELSE 0

\* the init_browser calls of one visit: _view_animal_details makes one inside
\* the loop body
SessionsPerVisit(k) == IF k = "animal" THEN 1 ELSE 0

\* the start of the batch: 'if not ranch_results: return ranch_results';
\* init_browser of _view_all_animal_details, whose failure returns data
StartBatch ==
    /\ epc = "start"
    /\ \E ok \in BOOLEAN :
          IF (kind = "ranch" /\ batch = <<>>) \/ (kind = "epd" /\ ~ok)
          THEN ReturnInput
          ELSE /\ epc' = "loop"
               /\ UNCHANGED <<enriched_results, outcomes, fetched>>
    /\ sessions_started' = SessionsPerBatch(kind)
    /\ UNCHANGED <<kind, given, batch>>
    /\ UNCHANGED eOther

\* one iteration of the loop over the batch
EnrichRecord ==
    /\ epc = "loop"
    /\ ~BatchDone(Len(enriched_results), Len(batch), LastOutcome)
    /\ Len(enriched_results) < Len(batch)
    /\ \E navOk \in BOOLEAN :
          \E details \in DetailPool(kind) :
              LET i == Len(enriched_results) + 1
                  r == batch[i]
                  outcome == IF Skips(kind, r) THEN "skipped"
                             ELSE IF navOk THEN "enriched" ELSE "failed"
                  out == IF outcome = "skipped" THEN r
                         ELSE IF outcome = "enriched" THEN MergeDetails(kind, r, details)
                         ELSE OnFailure(kind, r)
              IN  /\ enriched_results' = Append(enriched_results, out)
                  /\ outcomes' = Append(outcomes, outcome)
                  /\ fetched' = Append(fetched, IF outcome = "enriched" THEN details
                                                ELSE EmptyRecord)
                  /\ batch' = [batch EXCEPT ![i] = InputAfter(r, out)]
                  /\ sessions_started' =
                        IF outcome = "skipped" THEN sessions_started
                        ELSE sessions_started + SessionsPerVisit(kind)
    /\ UNCHANGED <<kind, given, epc>>
    /\ UNCHANGED eOther

\* the return after the loop; _view_all_animal_details returns data when the
\* export menu raises
FinishBatch ==
    /\ epc = "loop"
    /\ BatchDone(Len(enriched_results), Len(batch), LastOutcome)
    /\ \E ok \in BOOLEAN :
          IF kind = "epd" /\ ~ok
          THEN ReturnInput
          ELSE /\ epc' = "returned"
               /\ UNCHANGED <<enriched_results, outcomes, fetched>>
    /\ UNCHANGED <<kind, given, batch, sessions_started>>
    /\ UNCHANGED eOther

ENext == StartBatch \/ EnrichRecord \/ FinishBatch

SpecEnrich == EInit /\ [][ENext]_vars

-----------------------------------------------------------------------------
(* Claims about batch enrichment, checked under SpecEnrich *)

\* C15: the output record of a record whose enrichment succeeded has the keys
\* of the original record and of the detail-page fields without
\* member_id_html; on a key of the detail page it has the detail page's value,
\* on every other key the original value; the caller's record is as it was.
C15_MergePolicy ==
    \A i \in 1..Len(outcomes) :
        outcomes[i] = "enriched" =>
            /\ DOMAIN enriched_results[i]
                  = (DOMAIN given[i] \cup DOMAIN fetched[i]) \ {"member_id_html"}
            /\ \A k \in DOMAIN enriched_results[i] :
                  enriched_results[i][k]
                      = IF k \in DOMAIN fetched[i] THEN fetched[i][k] ELSE given[i][k]
            /\ batch[i] = given[i]

C15_Witness ==
    /\ epc = "returned"
    /\ kind = "ranch"
    /\ \E i \in 1..Len(outcomes) :
          /\ outcomes[i] = "enriched"
          /\ "member_id_html" \in DOMAIN given[i]
          /\ "dba" \in DOMAIN fetched[i]
          /\ given[i]["dba"] # fetched[i]["dba"]
          /\ enriched_results[i]["dba"] = <<"D", "2">>

\* C16: no record a batch enrichment returns has a member_id_html or a
\* registration_url field, whether its enrichment succeeded, failed or was
\* skipped.
C16_NoDeferredReference ==
    epc = "returned" =>
        \A n \in 1..Len(enriched_results) :
            DOMAIN enriched_results[n] \cap {"member_id_html", "registration_url"} = {}

\* C17: whatever happened to a record, its output record has at least as many
\* fields as the record had minus one, and member_id_html is the only field
\* of the record it can lack.
C17_FieldCount ==
    \A i \in 1..Len(enriched_results) :
        /\ Cardinality(DOMAIN enriched_results[i]) >= Cardinality(DOMAIN given[i]) - 1
        /\ DOMAIN given[i] \ DOMAIN enriched_results[i] \subseteq {"member_id_html"}

C17_Witness ==
    /\ epc = "returned"
    /\ \E i \in 1..Len(outcomes) :
          /\ outcomes[i] = "enriched"
          /\ Cardinality(DOMAIN enriched_results[i]) = Cardinality(DOMAIN given[i]) - 1

\* C18: enrich_with_member_details returns one record per input record, in
\* input order: a failure at one record ends neither the batch nor the
\* processing of the records after it.
C18_OneOutputPerInput ==
    kind = "ranch" =>
        /\ Len(enriched_results) <= Len(given)
        /\ Len(outcomes) = Len(enriched_results)
        /\ \A i \in 1..Len(enriched_results) :
              /\ "member_name" \in DOMAIN enriched_results[i]
              /\ enriched_results[i]["member_name"] = given[i]["member_name"]
        /\ epc = "returned" =>
              /\ Len(enriched_results) = Len(given)
              /\ \A i \in 1..Len(outcomes) : outcomes[i] \in {"skipped", "enriched", "failed"}

C18_Witness ==
    /\ epc = "returned"
    /\ kind = "ranch"
    /\ Len(given) = 3
    /\ outcomes = <<"failed", "skipped", "enriched">>
    /\ given[1]["member_name"] # given[3]["member_name"]

\* C19: a record whose navigation failed is in the output with every field it
\* had and the same values, and the records around it are enriched: of three
\* records of which the second fails, the output has three, the second as it
\* was.
C19_FailedRecordUnchanged ==
    epc = "returned" =>
        \A i \in 1..Len(outcomes) :
            outcomes[i] = "failed" =>
                /\ Len(enriched_results) = Len(given)
                /\ \A k \in DOMAIN given[i] :
                      /\ k \in DOMAIN enriched_results[i]
                      /\ enriched_results[i][k] = given[i][k]

\* C27: a batch enrichment starts at most one browser session, however many
\* records it visits.
C27_OneSessionPerBatch ==
    sessions_started <= 1

-----------------------------------------------------------------------------
(* Browser sessions: the operations that start the driver and a browser *)

ScrapeOps == {"scrape_ranches", "scrape_animals", "scrape_epd"}

CliOps == {"get_available_locations", "show_form_info"}

Operations == ScrapeOps \cup CliOps \cup {"run"}

\* the result kinds an operation works on
Serves(op) ==
    IF op = "scrape_animals" THEN {"animal"}
    ELSE IF op = "scrape_epd" THEN {"epd"}
    ELSE IF op = "run" THEN {"ranch", "epd"}
    ELSE {"ranch"}

\* the steps of an operation between new_page and the release, in order
Body(op) ==
    IF op = "scrape_animals"
    THEN <<"navigate", "form_ready", "validate", "defaults", "fill", "trigger",
           "wait", "extract">>
    ELSE IF op \in ScrapeOps
    THEN <<"navigate", "form_ready", "validate", "fill", "trigger", "wait", "extract">>
    ELSE IF op = "get_available_locations" THEN <<"navigate", "form_ready", "locations">>
    ELSE IF op = "show_form_info" THEN <<"form_info">>
    ELSE <<"navigate", "main_loop">>

\* the operation returns when this step reports a failure; the steps catch
\* their own exceptions
ReturnsEarly(op, step) ==
    \/ op \in ScrapeOps /\ step \notin {"defaults", "extract"}
    \/ op = "run" /\ step = "navigate"

\* where an exception of start(), launch() or new_page() leads: the except
\* handler of the two CLI operations returns, the others go through their
\* finally block
AfterError(op) == IF op \in CliOps THEN "returned" ELSE "close"

\* an exception of browser.close() that nothing catches: it reaches the caller
AfterCloseErrorUncaught(op) == "raised"

\* where an exception of browser.close() leads: scrape_* catches it on its own
\* and goes on to playwright.stop(), cleanup() and the CLI operations leave
AfterCloseError(op) == IF op \in ScrapeOps THEN "stop" ELSE "returned"

\* run() stores the driver in self.playwright as soon as it is started;
\* the others get it when init_browser returns browser and driver together
AssignsAtStart(op) == op = "run"

\* the release code calls browser.close(): the CLI operations always on the
\* path that reaches it, the others if the name holds a browser
Closes(op, held) == op \in CliOps \/ held

\* the release code calls playwright.stop()
Stops(op, held) == op \in CliOps \/ held

StepIndex(op, step) == CHOOSE i \in 1..Len(Body(op)) : Body(op)[i] = step

qOther == <<rvars, xvars, svars, cvars, evars, tvars>>

QInit ==
    /\ operation \in Operations
    /\ qpc = "start"
    /\ playwright = "none"
    /\ browser = "none"
    /\ has_browser = FALSE
    /\ has_playwright = FALSE
    /\ left = "inside"
    /\ kind \in Serves(operation)
    /\ rows = <<>>
    /\ results = <<>>
    /\ origin = <<>>
    /\ xpc = "page"
    /\ pageOpen = TRUE
    /\ selectPresent = FALSE
    /\ dropdown = <<>>
    /\ user_input = <<>>
    /\ options = <<>>
    /\ mapped = None
    /\ rpc = "page"
    /\ SIdle
    /\ CIdle
    /\ EIdle
    /\ TIdle

\* async_playwright().start()
StartPlaywright ==
    /\ qpc = "start"
    /\ \E ok \in BOOLEAN :
          IF ok
          THEN /\ playwright' = "running"
               /\ has_playwright' = AssignsAtStart(operation)
               /\ qpc' = "launch"
               /\ left' = left
          ELSE /\ qpc' = AfterError(operation)
               /\ left' = "exception"
               /\ UNCHANGED <<playwright, has_playwright>>
    /\ UNCHANGED <<operation, browser, has_browser>>
    /\ UNCHANGED qOther

\* playwright.chromium.launch(headless=True) and, when it succeeded, the
\* assignment of the names the release code reads
LaunchBrowser ==
    /\ qpc = "launch"
    /\ \E ok \in BOOLEAN :
          IF ok
          THEN /\ browser' = "open"
               /\ has_browser' = TRUE
               /\ has_playwright' = TRUE
               /\ qpc' = "new_page"
               /\ left' = left
          ELSE /\ qpc' = AfterError(operation)
               /\ left' = "exception"
               /\ UNCHANGED <<browser, has_browser, has_playwright>>
    /\ UNCHANGED <<operation, playwright>>
    /\ UNCHANGED qOther

\* browser.new_page()
NewPage ==
    /\ qpc = "new_page"
    /\ \E ok \in BOOLEAN :
          IF ok
          THEN /\ qpc' = Body(operation)[1]
               /\ left' = left
          ELSE /\ qpc' = AfterError(operation)
               /\ left' = "exception"
    /\ UNCHANGED <<operation, playwright, browser, has_browser, has_playwright>>
    /\ UNCHANGED qOther

\* one step of the body: it succeeds, or reports a failure
BodyStep ==
    /\ \E i \in 1..Len(Body(operation)) : qpc = Body(operation)[i]
    /\ \E ok \in BOOLEAN :
          IF ok \/ ~ReturnsEarly(operation, qpc)
          THEN IF StepIndex(operation, qpc) = Len(Body(operation))
               THEN /\ qpc' = "close"
                    /\ left' = "return"
               ELSE /\ qpc' = Body(operation)[StepIndex(operation, qpc) + 1]
                    /\ left' = left
          ELSE /\ qpc' = "close"
               /\ left' = "early"
    /\ UNCHANGED <<operation, playwright, browser, has_browser, has_playwright>>
    /\ UNCHANGED qOther

\* browser.close() of the release code
CloseBrowser ==
    /\ qpc = "close"
    /\ IF Closes(operation, has_browser)
       THEN \E ok \in BOOLEAN :
               IF ok
               THEN /\ browser' = "closed"
                    /\ qpc' = "stop"
               ELSE /\ browser' = "close_failed"
                    /\ qpc' = AfterCloseError(operation)
       ELSE /\ qpc' = "stop"
            /\ browser' = browser
    /\ UNCHANGED <<operation, playwright, has_browser, has_playwright, left>>
    /\ UNCHANGED qOther

\* playwright.stop() of the release code, and the return
StopPlaywright ==
    /\ qpc = "stop"
    /\ IF Stops(operation, has_playwright)
       THEN \E ok \in BOOLEAN :
               playwright' = IF ok THEN "stopped" ELSE "stop_failed"
       ELSE playwright' = playwright
    /\ qpc' = "returned"
    /\ UNCHANGED <<operation, browser, has_browser, has_playwright, left>>
    /\ UNCHANGED qOther

QNext ==
    \/ StartPlaywright
    \/ LaunchBrowser
    \/ NewPage
    \/ BodyStep
    \/ CloseBrowser
    \/ StopPlaywright

SpecSession == QInit /\ [][QNext]_vars

\* C20: when an operation that started a session returns, it has called
\* close() on the browser it launched and stop() on the driver it started,
\* however it left: normally, early, or by an exception of the start, the
\* launch or a later step.
C20_SessionReleased ==
    qpc = "returned" => browser # "open" /\ playwright # "running"

\* C24: a scrape call never hands an exception to its caller: whichever of
\* start, launch, new_page, a step of the body, close or stop fails, the call
\* is never left by an exception, it can always go on until it has returned,
\* and it returns through one of its return statements.
C24_NeverPropagates ==
    operation \in ScrapeOps =>
        /\ qpc # "raised"
        /\ qpc # "returned" => ENABLED QNext
        /\ qpc = "returned" => left \in {"return", "early", "exception"}

C24_Witness ==
    /\ operation \in ScrapeOps
    /\ qpc = "returned"
    /\ left = "exception"
    /\ browser = "close_failed"
    /\ playwright = "stop_failed"

-----------------------------------------------------------------------------
(* Further claims about the scrape pipeline, checked under SpecScrape *)

\* C21: the page's search function is invoked only after a probe of the same
\* submission reported that it exists, and the submit control is clicked only
\* when the function was not reported present: one mechanism per submission.
C21_ProbeBeforeInvoke ==
    /\ trigger = "function" => probed /\ hasFunc
    /\ trigger = "button" => ~(probed /\ hasFunc)

\* the stages of a scrape call the claim names, in their order
StageOrder ==
    <<"navigate", "form_ready", "validate", "fill", "trigger", "wait", "extract">>

IsOrderedStage(name) == name \in Range(StageOrder)

-----------------------------------------------------------------------------
(* A further claim about the resolver, checked under SpecResolve *)

\* the separator of country and state in a location value, alone
BareSeparator == <<"|">>

\* C25: the option list read from the dropdown has no entry whose value is
\* empty or the bare separator, and the resolver returns no such value.
C25_NoBlankOption ==
    /\ \A i \in 1..Len(options) : options[i].value \notin {<<>>, BareSeparator}
    /\ mapped \notin {<<>>, BareSeparator}

-----------------------------------------------------------------------------
(* The two normalisers: utils.normalize_string and FormParser.normalize_input *)

NormAlphabet == {"t", "x", "T", " ", "\t"}

NormInputs == UNION {[1..k -> NormAlphabet] : k \in 0..MaxText}

\* re.sub(r'\s+', ' ', s): every run of whitespace becomes one space
RECURSIVE CollapseRuns(_)
CollapseRuns(s) ==
    IF s = <<>> THEN <<>>
    ELSE IF IsSpace(Head(s))
    THEN IF Tail(s) # <<>> /\ IsSpace(Head(Tail(s)))
         THEN CollapseRuns(Tail(s))
         ELSE <<" ">> \o CollapseRuns(Tail(s))
    ELSE <<Head(s)>> \o CollapseRuns(Tail(s))

\* normalize_string: "" for an empty text, else strip, collapse, upper
NormalizeString(t) ==
    IF t = <<>> THEN <<>> ELSE Upper(CollapseRuns(Strip(t)))

\* the abbreviations table of normalize_input
Abbreviations ==
    (<<"T", "X">> :> <<"T", "E", "X", "A", "S">>)
    @@ (<<"C", "A">> :> <<"C", "A", "L", "I", "F", "O", "R", "N", "I", "A">>)
    @@ (<<"N", "Y">> :> <<"N", "E", "W", " ", "Y", "O", "R", "K">>)
    @@ (<<"F", "L">> :> <<"F", "L", "O", "R", "I", "D", "A">>)
    @@ (<<"I", "L">> :> <<"I", "L", "L", "I", "N", "O", "I", "S">>)
    @@ (<<"P", "A">> :> <<"P", "E", "N", "N", "S", "Y", "L", "V", "A", "N", "I", "A">>)
    @@ (<<"O", "H">> :> <<"O", "H", "I", "O">>)
    @@ (<<"G", "A">> :> <<"G", "E", "O", "R", "G", "I", "A">>)
    @@ (<<"N", "C">> :> <<"N", "O", "R", "T", "H", " ", "C", "A", "R", "O", "L", "I", "N", "A">>)
    @@ (<<"M", "I">> :> <<"M", "I", "C", "H", "I", "G", "A", "N">>)

\* normalize_input: the same normalisation, then abbreviations.get(normalized, normalized)
NormalizeInput(t) ==
    IF t = <<>> THEN <<>>
    ELSE LET n == Upper(CollapseRuns(Strip(t)))
         IN  IF n \in DOMAIN Abbreviations THEN Abbreviations[n] ELSE n

nOther == <<rvars, xvars, svars, cvars, evars, qvars, fvars, kvars>>

NInit ==
    /\ text \in NormInputs
    /\ normalized = <<>>
    /\ kind = "ranch"
    /\ rows = <<>>
    /\ results = <<>>
    /\ origin = <<>>
    /\ xpc = "page"
    /\ pageOpen = TRUE
    /\ selectPresent = FALSE
    /\ dropdown = <<>>
    /\ user_input = <<>>
    /\ options = <<>>
    /\ mapped = None
    /\ rpc = "page"
    /\ SIdle
    /\ CIdle
    /\ EIdle
    /\ QIdle
    /\ FIdle
    /\ KIdle

\* both normalisers are called on the same text
NormalizeText ==
    /\ normalized = <<>>
    /\ normalized' = <<NormalizeString(text), NormalizeInput(text)>>
    /\ UNCHANGED text
    /\ UNCHANGED nOther

NNext == NormalizeText

SpecNormalize == NInit /\ [][NNext]_vars

\* C26: normalize_string and normalize_input return the same result on every
\* text.
C26_NormalisersAgree ==
    normalized # <<>> => normalized[1] = normalized[2]

-----------------------------------------------------------------------------
(* The form filler: fill_search_form of the ranch scraper, fill_form of the
   animal form parser, inside the scrape call *)

FillKinds == {"ranch", "animal"}

\* the parameters of a search in the order the caller's dictionary gives them
ParamOrder(k) ==
    IF k = "ranch" THEN <<"name", "location", "city">> ELSE <<"value">>

\* field_mappings of fill_search_form; search_value_id of AnimalFormParser
FieldId(k, param) ==
    IF k = "animal" THEN "animal_search_val"
    ELSE IF param = "name" THEN "ranch_search_val"
    ELSE IF param = "city" THEN "ranch_search_city"
    ELSE IF param = "member_id" THEN "ranch_search_id"
    ELSE IF param = "prefix" THEN "ranch_search_prefix"
    ELSE "search-member-location"

TextValues == {<<>>, <<"T", "X">>, <<"t", "x">>, <<"t", " ", " ", "x">>}

LocationValues == {<<>>, Texas, Ohio}

SearchParams(k) ==
    IF k = "ranch"
    THEN {("name" :> n) @@ ("location" :> l) @@ ("city" :> c) :
             n \in TextValues, l \in LocationValues, c \in {<<>>, <<"t", "x">>}}
    ELSE {("value" :> v) : v \in TextValues}

\* 'if not value: continue' of fill_search_form; fill_form fills whatever
\* value it has
SkipsParam(k, value) == k = "ranch" /\ value = <<>>

\* the text element.fill / page.fill is given
WrittenText(k, value) == IF k = "ranch" THEN Upper(value) ELSE value

\* 'if mapped_value:' of fill_search_form
Truthy(m) == m # None /\ m # <<>>

\* fill_dropdown_field of FormHandler: a location that cannot be mapped makes
\* the fill fail
UnmappedLocationFails(result) == "False"

\* fill_search_form prints a warning for a location that cannot be mapped and
\* goes on
UnmappedLocation(result) == result

fOther == <<pageOpen, selectPresent, dropdown, user_input, options, mapped, rpc,
            rows, results, origin, xpc, missing, probed, trigger, pagevars,
            pollvars, cvars, evars, qvars, nvars, kvars>>

FInit ==
    /\ kind \in FillKinds
    /\ search_params \in SearchParams(kind)
    /\ todo = ParamOrder(kind)
    /\ filled = <<>>
    /\ fill_result = "pending"
    /\ fill_error = FALSE
    /\ pc = "fill"
    /\ stages = IF kind = "animal"
                THEN <<"init_browser", "navigate", "form_ready", "validate", "defaults">>
                ELSE <<"init_browser", "navigate", "form_ready", "validate">>
    /\ pageOpen = TRUE
    /\ selectPresent = TRUE
    /\ dropdown \in {<<>>, ScenarioDropdown}
    /\ user_input = <<>>
    /\ options = <<>>
    /\ mapped = None
    /\ rpc = "page"
    /\ rows = <<>>
    /\ results = <<>>
    /\ origin = <<>>
    /\ xpc = "page"
    /\ controls = Required(kind) \cup {FormRoot(kind)}
    /\ hasFunc = TRUE
    /\ hasButton = TRUE
    /\ marker = FALSE
    /\ loading = FALSE
    /\ container = FALSE
    /\ missing = {}
    /\ probed = FALSE
    /\ trigger = "none"
    /\ ppc = "idle"
    /\ elapsed_time = 0
    /\ ticks = 0
    /\ has_results = FALSE
    /\ no_results = [noResults |-> FALSE, loading |-> FALSE]
    /\ seenMarker = FALSE
    /\ readiness = "Pending"
    /\ CIdle
    /\ EIdle
    /\ QIdle
    /\ NIdle
    /\ KIdle

\* one parameter of the loop of fill_search_form, or the one fill of fill_form:
\* a driver call that raises ends the fill with False
FillField ==
    /\ pc = "fill"
    /\ fill_result = "pending"
    /\ todo # <<>>
    /\ LET param == Head(todo)
           value == search_params[param]
           m == MapLocationInput(GetDropdownOptions(pageOpen, selectPresent, dropdown),
                                 value)
       IN  IF SkipsParam(kind, value)
           THEN /\ todo' = Tail(todo)
                /\ UNCHANGED <<filled, fill_result, fill_error>>
           ELSE \E ok \in BOOLEAN :
                   IF ~ok
                   THEN /\ fill_result' = "False"
                        /\ fill_error' = TRUE
                        /\ UNCHANGED <<todo, filled>>
                   ELSE /\ todo' = Tail(todo)
                        /\ fill_error' = fill_error
                        /\ IF param = "location"
                           THEN IF Truthy(m)
                                THEN /\ filled' = (FieldId(kind, param) :> m) @@ filled
                                     /\ fill_result' = fill_result
                                ELSE /\ filled' = filled
                                     /\ fill_result' = UnmappedLocation(fill_result)
                           ELSE /\ filled' = (FieldId(kind, param)
                                                :> WrittenText(kind, value)) @@ filled
                                /\ fill_result' = fill_result
    /\ UNCHANGED <<kind, search_params, pc, stages>>
    /\ UNCHANGED fOther

\* the filler returns and the scrape call tests what it returned
FillReturn ==
    /\ pc = "fill"
    /\ todo = <<>> \/ fill_result = "False"
    /\ fill_result' = IF fill_result = "pending" THEN "True" ELSE fill_result
    /\ Stage("fill", "trigger", fill_result # "False")
    /\ UNCHANGED <<kind, search_params, todo, filled, fill_error>>
    /\ UNCHANGED fOther

\* the stages of the scrape call after the fill: submit, readiness wait and
\* extraction, each run if the one before it succeeded
AfterFill ==
    /\ pc = "trigger"
    /\ \E n \in 1..3 :
          stages' = stages \o SubSeq(<<"trigger", "wait", "extract">>, 1, n)
    /\ pc' = "finally"
    /\ UNCHANGED <<kind, search_params, todo, filled, fill_result, fill_error>>
    /\ UNCHANGED fOther

FNext == FillField \/ FillReturn \/ AfterFill \/ Finally

SpecFill == FInit /\ [][FNext]_vars

\* C22: the text written into a text control is normalize_string of the
\* caller's value for the parameter of that control.
C22_WrittenIsNormalised ==
    \A param \in DOMAIN search_params :
        (param # "location" /\ FieldId(kind, param) \in DOMAIN filled) =>
            filled[FieldId(kind, param)] = NormalizeString(search_params[param])

LocationUnresolved ==
    /\ kind = "ranch"
    /\ "location" \in DOMAIN search_params
    /\ search_params["location"] # <<>>
    /\ MapLocationInput(GetDropdownOptions(pageOpen, selectPresent, dropdown),
                        search_params["location"]) = None

\* C23: in scrape_ranches a location that resolves to no value of the dropdown
\* is never written into the control and does not make the fill fail: unless
\* a driver call raised, the filler returns True with every other given field
\* written, and the call then submits the form.
C23_UnresolvedIsNotFatal ==
    LocationUnresolved =>
        /\ "search-member-location" \notin DOMAIN filled
        /\ fill_result = "False" => fill_error
        /\ fill_result = "True" =>
              /\ \A param \in {"name", "city"} :
                    search_params[param] # <<>> =>
                        FieldId(kind, param) \in DOMAIN filled
              /\ pc # "fill"
              /\ Returning => Ran("trigger")

C23_Witness ==
    /\ LocationUnresolved
    /\ search_params["location"] = Ohio
    /\ dropdown = ScenarioDropdown
    /\ pc = "returned"
    /\ "ranch_search_city" \in DOMAIN filled
    /\ Ran("extract")

-----------------------------------------------------------------------------
(* Several scrape calls on one scraper object: scrape_ranches, scrape_animals
   and scrape_epd keep the browser and the driver in self.browser and
   self.playwright. A call gives way to another at each of its awaits. *)

Calls == 1..MaxCalls

InProgress(c) == callpc[c].at \notin {"idle", "returned"}

At(c, position) == [callpc EXCEPT ![c].at = position]

kOther == <<rvars, xvars, svars, cvars, evars, qvars, fvars, nvars>>

\* __init__: self.browser = None, self.playwright = None
KInit ==
    /\ callpc = [c \in Calls |-> [at |-> "idle", page |-> 0]]
    /\ self_browser = 0
    /\ self_playwright = 0
    /\ drivers = [c \in Calls |-> "none"]
    /\ browsers = [c \in Calls |-> "none"]
    /\ closed_by = [c \in Calls |-> <<>>]
    /\ stopped_by = [c \in Calls |-> <<>>]
    /\ closed_in_use = FALSE
    /\ overlapped = FALSE
    /\ kind \in Kinds
    /\ rows = <<>>
    /\ results = <<>>
    /\ origin = <<>>
    /\ xpc = "page"
    /\ pageOpen = TRUE
    /\ selectPresent = FALSE
    /\ dropdown = <<>>
    /\ user_input = <<>>
    /\ options = <<>>
    /\ mapped = None
    /\ rpc = "page"
    /\ SIdle
    /\ CIdle
    /\ EIdle
    /\ QIdle
    /\ FIdle
    /\ NIdle

\* the call is made and awaits async_playwright().start() in init_browser
CallStart(c) ==
    /\ callpc[c].at = "idle"
    /\ overlapped' = (overlapped \/ \E d \in Calls \ {c} : InProgress(d))
    /\ \E ok \in BOOLEAN :
          IF ok
          THEN /\ drivers' = [drivers EXCEPT ![c] = "running"]
               /\ callpc' = At(c, "launch")
          ELSE /\ drivers' = drivers
               /\ callpc' = At(c, "close")
    /\ UNCHANGED <<self_browser, self_playwright, browsers, closed_by, stopped_by,
                   closed_in_use>>
    /\ UNCHANGED kOther

\* chromium.launch returns and init_browser's result is assigned:
\* self.browser, self.playwright = await self.init_browser()
CallLaunch(c) ==
    /\ callpc[c].at = "launch"
    /\ \E ok \in BOOLEAN :
          IF ok
          THEN /\ browsers' = [browsers EXCEPT ![c] = "open"]
               /\ self_browser' = c
               /\ self_playwright' = c
               /\ callpc' = At(c, "new_page")
          ELSE /\ callpc' = At(c, "close")
               /\ UNCHANGED <<browsers, self_browser, self_playwright>>
    /\ UNCHANGED <<drivers, closed_by, stopped_by, closed_in_use, overlapped>>
    /\ UNCHANGED kOther

\* page = await self.browser.new_page(): on the browser self.browser names
\* now; it raises on a closed browser
CallNewPage(c) ==
    /\ callpc[c].at = "new_page"
    /\ \E ok \in BOOLEAN :
          IF ok /\ browsers[self_browser] = "open"
          THEN callpc' = [callpc EXCEPT ![c] = [at |-> "body", page |-> self_browser]]
          ELSE callpc' = At(c, "close")
    /\ UNCHANGED <<self_browser, self_playwright, drivers, browsers, closed_by,
                   stopped_by, closed_in_use, overlapped>>
    /\ UNCHANGED kOther

\* navigate ... extract on the page, then the return into the finally block
CallBody(c) ==
    /\ callpc[c].at = "body"
    /\ callpc' = [callpc EXCEPT ![c] = [at |-> "close", page |-> 0]]
    /\ UNCHANGED <<self_browser, self_playwright, drivers, browsers, closed_by,
                   stopped_by, closed_in_use, overlapped>>
    /\ UNCHANGED kOther

\* finally: if self.browser: await self.browser.close()
CallClose(c) ==
    /\ callpc[c].at = "close"
    /\ callpc' = At(c, "stop")
    /\ IF self_browser # 0
       THEN /\ browsers' = [browsers EXCEPT ![self_browser] = "closed"]
            /\ closed_by' = [closed_by EXCEPT ![self_browser] = Append(@, c)]
            /\ closed_in_use' =
                  (closed_in_use
                   \/ \E d \in Calls \ {c} :
                         callpc[d].at = "body" /\ callpc[d].page = self_browser)
       ELSE UNCHANGED <<browsers, closed_by, closed_in_use>>
    /\ UNCHANGED <<self_browser, self_playwright, drivers, stopped_by, overlapped>>
    /\ UNCHANGED kOther

\* finally: if self.playwright: await self.playwright.stop(); then the return
CallStop(c) ==
    /\ callpc[c].at = "stop"
    /\ callpc' = At(c, "returned")
    /\ IF self_playwright # 0
       THEN /\ drivers' = [drivers EXCEPT ![self_playwright] = "stopped"]
            /\ stopped_by' = [stopped_by EXCEPT ![self_playwright] = Append(@, c)]
       ELSE UNCHANGED <<drivers, stopped_by>>
    /\ UNCHANGED <<self_browser, self_playwright, browsers, closed_by, closed_in_use,
                   overlapped>>
    /\ UNCHANGED kOther

KNext ==
    \E c \in Calls :
        \/ CallStart(c)
        \/ CallLaunch(c)
        \/ CallNewPage(c)
        \/ CallBody(c)
        \/ CallClose(c)
        \/ CallStop(c)

SpecCalls == KInit /\ [][KNext]_vars

\* C28: with calls running at the same time on one scraper object, a browser
\* is closed and a driver stopped only by the call that acquired it, no
\* browser is closed while another call has its page on it, and once every
\* call has returned every browser that was launched is closed and its
\* driver stopped.
C28_ConcurrentCallsOwnSessions ==
    /\ \A b \in Calls : \A n \in 1..Len(closed_by[b]) : closed_by[b][n] = b
    /\ \A b \in Calls : \A n \in 1..Len(stopped_by[b]) : stopped_by[b][n] = b
    /\ ~closed_in_use
    /\ (\A c \in Calls : callpc[c].at = "returned") =>
          \A b \in Calls :
              browsers[b] # "none" => browsers[b] = "closed" /\ drivers[b] = "stopped"

\* C29: with calls made one after the other on one scraper object, every
\* browser is closed at most once and every driver stopped at most once, and
\* only by the call that acquired it.
C29_ReleasedOnceByOwner ==
    ~overlapped =>
        \A b \in Calls :
            /\ Len(closed_by[b]) <= 1
            /\ Len(stopped_by[b]) <= 1
            /\ \A n \in 1..Len(closed_by[b]) : closed_by[b][n] = b
            /\ \A n \in 1..Len(stopped_by[b]) : stopped_by[b][n] = b

====
